---------------------------- MODULE Spec2Model ----------------------------
(***************************************************************************)
(* A model of the resumable crawl engine of gh-crawler: the per-repository *)
(* crawl state and its two transition functions, the PR cache store with   *)
(* its write queue, the discovery / scraping engine of                     *)
(* AggressivePRScraper, the quota check, the circuit breaker of            *)
(* FailedIssueCache and the output log written by crawl_repositories.      *)
(*                                                                         *)
(* Each component has a specification of its own (SpecState, SpecCache,    *)
(* ...) over the one set of variables; a specification leaves the          *)
(* variables of the other components at their initial value.               *)
(***************************************************************************)
EXTENDS Integers, Sequences, FiniteSets, TLC

(***************************************************************************)
(* Bounds of the model.                                                    *)
(***************************************************************************)
\* PR numbers are 1..MaxPr
MaxPr == 2
\* listing pages named in an API-level call are 1..MaxPage
MaxPage == 1
\* a page delivers at most this many URLs in an API-level call
MaxPageUrls == 1
\* API-level calls per behaviour of SpecState
MaxCalls == 2
\* enqueueItem calls per behaviour of SpecCache
MaxEnqueues == 3
\* flushes that fail part-way per behaviour of SpecCache
MaxFlushFailures == 1
\* a flush threshold small enough to be reached (CACHE_FLUSH_BATCH_SIZE is
\* read from the environment)
SmallBatchSize == 2

\* the remote listing of closed PRs has at most this many pages with PRs
MaxListed == 2
\* the caps on closed PRs tried are 0 (none) .. MaxCap
MaxCap == 2
\* a fetch fault starts on one of the pages 1..MaxFaultPage
MaxFaultPage == 1

\* an input file lists at most this many repositories
MaxInput == 2
\* stars of an input repository and the star thresholds tried are 0..MaxStars
MaxStars == 1
\* calls of crawl_repositories per behaviour of SpecCrawl
MaxRuns == 3

\* closed PRs a repository has, tried in full: 0..MaxAvailable
MaxAvailable == 12
\* closed PRs scraped, tried in full: 0..MaxScraped
MaxScraped == 12
\* merged PRs and open PRs among the scraped ones: 0..MaxOtherState each
MaxOtherState == 1

\* issue numbers given to mark_failed are 1..MaxIssue
MaxIssue == 5
\* calls of mark_failed per behaviour of SpecBreaker
MaxMarks == 11
\* steps of the clock per behaviour of SpecBreaker
MaxTicks == 2

\* PRs the first pass over a repository returns: 0..MaxFirstPass
MaxFirstPass == 2

\* calls of the legacy crawl_repositories per behaviour of SpecLegacy
MaxLegacyRuns == 2
\* times the output directory is changed per behaviour of SpecLegacy
MaxMoves == 1
\* calls of _crawl_single_repository per behaviour of SpecSingle
MaxAttempts == 2
\* open PRs and closed PRs the statistics of a repository give: 0..MaxCounted
MaxCounted == 1

(***************************************************************************)
(* Constants of the program.                                               *)
(***************************************************************************)
\* config.CRAWL_OPEN_PRS, config.CRAWL_CLOSED_PRS
CRAWL_OPEN_PRS == FALSE

CRAWL_CLOSED_PRS == TRUE

\* _discover_pr_urls_parallel: max_pages, max_consecutive_empty, the full
\* batch of pages, the first backoff delay and max_backoff
max_pages == 500

max_consecutive_empty == 3

DISCOVERY_BATCH == 10

BASE_BACKOFF == 1

max_backoff == 60

\* PRCacheManager.batch_size
LEGACY_BATCH_SIZE == 10

\* update_scraping_progress saves the state every SAVE_EVERY scraped PRs
SAVE_EVERY == 10

\* config.CACHE_FLUSH_BATCH_SIZE, the default
CACHE_FLUSH_BATCH_SIZE == 20

\* config.MIN_PRS_REQUIRED, and the quota its comment and the docstring of
\* GitHubCrawler._meets_minimum_pr_requirement name
MIN_PRS_REQUIRED == 500

DOCUMENTED_QUOTA == 1000

\* FailedIssueCache.failure_threshold, FailedIssueCache.block_timeout, and
\* the number of failed issues of a repository after which mark_failed saves
failure_threshold == 10

block_timeout == 300

SAVE_FAILED_EVERY == 5

max_retry_attempts == 5

\* 86400 * 7 seconds
max_cache_age == 604800

\* days a successful checkpoint entry counts
MAX_CHECKPOINT_AGE_DAYS == 30

MIN_ATTEMPT_LIMIT == 100

MAX_CLOSED_PRS_TO_CRAWL == 500

(***************************************************************************)
(* Sequences helpers.                                                      *)
(***************************************************************************)
Range(s) == {s[i] : i \in 1..Len(s)}

NoDup(s) == \A i, j \in 1..Len(s) : i # j => s[i] # s[j]

SeqsUpTo(S, n) == UNION {[1..k -> S] : k \in 0..n}

Min(a, b) == IF a <= b THEN a ELSE b

Max(a, b) == IF a >= b THEN a ELSE b

(***************************************************************************)
(* PR URLs.  A URL found on a listing page is repo_url + "/pull/<n>" or a  *)
(* link below it (".../pull/<n>/files"): _extract_pr_urls_from_page keeps  *)
(* every href that contains "/pull/".                                      *)
(***************************************************************************)
PrNumbers == 1..MaxPr

Suffixes == {"", "/files"}

Urls == [num : PrNumbers, suffix : Suffixes]

PullUrl(n) == [num |-> n, suffix |-> ""]

\* the URLs of the PRs themselves
PullUrls == {PullUrl(n) : n \in PrNumbers}

\* int(url.split('/pull/')[-1]) raises ValueError on anything but digits
ParseError == 0 - 1

IntOfPullSuffix(url) == IF url.suffix = "" THEN url.num ELSE ParseError

\* re.search(r"/pull/(\d+)", pr_url)
_extract_pr_number(url) == url.num

(***************************************************************************)
(* The crawl state (PRCrawlState / RepositoryCrawlState).                  *)
(***************************************************************************)
PrTypes == {"open", "closed"}

create_initial_state ==
  [discovered_pr_urls    |-> << >>,
   scraped_pr_numbers    |-> << >>,
   failed_pr_urls        |-> << >>,
   last_open_page        |-> 0,
   last_closed_page      |-> 0,
   open_pages_complete   |-> FALSE,
   closed_pages_complete |-> FALSE,
   discovery_complete    |-> FALSE,
   scraping_complete     |-> FALSE,
   open_prs_found        |-> 0,
   closed_prs_found      |-> 0]

\* the checkpoint file does not exist
NoCheckpoint == [absent |-> TRUE]

\* an append of the whole list, with no membership test
AppendAll(urls, new_urls) == urls \o new_urls

\* for url in new_urls: if url not in existing: append
RECURSIVE AppendNew(_, _)
AppendNew(urls, new_urls) ==
  IF new_urls = << >> THEN urls
  ELSE AppendNew(IF Head(new_urls) \in Range(urls) THEN urls
                 ELSE Append(urls, Head(new_urls)),
                 Tail(new_urls))


\* PRCheckpointManager.update_discovery_progress; it ends with save_state
update_discovery_progress(st, pr_type, page, new_urls, pages_complete) ==
  LET urls      == AppendNew(st.discovered_pr_urls, new_urls)
      new_count == Len(urls) - Len(st.discovered_pr_urls)
      s1 == IF pr_type = "open"
            THEN [st EXCEPT !.discovered_pr_urls  = urls,
                            !.last_open_page      = page,
                            !.open_pages_complete = pages_complete,
                            !.open_prs_found      = @ + new_count]
            ELSE [st EXCEPT !.discovered_pr_urls    = urls,
                            !.last_closed_page      = page,
                            !.closed_pages_complete = pages_complete,
                            !.closed_prs_found      = @ + new_count]
      s2 == [s1 EXCEPT !.discovery_complete =
                          s1.open_pages_complete /\ s1.closed_pages_complete]
  IN  [state |-> s2, save |-> TRUE]

\* the unified-cache branch of AggressivePRScraper._update_discovery_progress
unified_update_discovery_progress(st, pr_type, page, new_urls, pages_complete) ==
  LET s1 == IF pr_type = "open"
            THEN [st EXCEPT !.last_open_page = page,
                            !.open_pages_complete = IF pages_complete THEN TRUE ELSE @]
            ELSE [st EXCEPT !.last_closed_page = page,
                            !.closed_pages_complete = IF pages_complete THEN TRUE ELSE @]
      s2 == [s1 EXCEPT !.discovered_pr_urls = AppendNew(@, new_urls)]
  IN  [state |-> s2, save |-> FALSE]

_update_discovery_progress(uni, st, pr_type, page, new_urls, pages_complete) ==
  IF uni
  THEN unified_update_discovery_progress(st, pr_type, page, new_urls, pages_complete)
  ELSE update_discovery_progress(st, pr_type, page, new_urls, pages_complete)

AddIfAbsent(s, x) == IF x \in Range(s) THEN s ELSE Append(s, x)

\* PRCheckpointManager.update_scraping_progress; pr_url is None on success
update_scraping_progress(st, pr_number, success, has_url, pr_url) ==
  LET s1 == IF success
            THEN [st EXCEPT !.scraped_pr_numbers = AddIfAbsent(@, pr_number)]
            ELSE IF has_url
                 THEN [st EXCEPT !.failed_pr_urls = AddIfAbsent(@, pr_url)]
                 ELSE st
      total_discovered == Len(s1.discovered_pr_urls)
      total_processed  == Len(s1.scraped_pr_numbers) + Len(s1.failed_pr_urls)
      s2 == [s1 EXCEPT !.scraping_complete =
                          (total_discovered > 0 /\ total_processed >= total_discovered)]
  IN  [state |-> s2, save |-> (Len(s2.scraped_pr_numbers) % SAVE_EVERY = 0)]

\* the unified-cache branch of AggressivePRScraper._update_scraping_progress
unified_update_scraping_progress(st, pr_number, success, has_url, pr_url) ==
  LET s1 == IF success
            THEN [st EXCEPT !.scraped_pr_numbers = AddIfAbsent(@, pr_number)]
            ELSE IF has_url
                 THEN [st EXCEPT !.failed_pr_urls = AddIfAbsent(@, pr_url)]
                 ELSE st
  IN  [state |-> s1, save |-> FALSE]

_update_scraping_progress(uni, st, pr_number, success, has_url, pr_url) ==
  IF uni
  THEN unified_update_scraping_progress(st, pr_number, success, has_url, pr_url)
  ELSE update_scraping_progress(st, pr_number, success, has_url, pr_url)

(***************************************************************************)
(* The PR cache store (UnifiedCacheManager, PRCacheManager): a write queue *)
(* of (repo_url, pr_info) pairs in memory and one append-only file per     *)
(* repository.  A PullRequestInfo is known by its number.                  *)
(***************************************************************************)
Repos == {"repoA", "repoB"}

CacheItems == [repo_url : Repos, number : PrNumbers]

NoFiles == [r \in Repos |-> << >>]

\* how often x occurs in the sequence s
Count(s, x) == Cardinality({i \in 1..Len(s) : s[i] = x})

\* the keys of repo_prs, in insertion order: the repositories of the queue in
\* the order of their first item
RECURSIVE RepoOrder(_)
RepoOrder(queue) ==
  IF queue = << >> THEN << >>
  ELSE LET rest == RepoOrder(SubSeq(queue, 1, Len(queue) - 1))
           r    == queue[Len(queue)].repo_url
       IN  IF r \in Range(rest) THEN rest ELSE Append(rest, r)

\* repo_prs[repo_url]
RECURSIVE GroupOf(_, _)
GroupOf(queue, r) ==
  IF queue = << >> THEN << >>
  ELSE IF Head(queue).repo_url = r
       THEN <<Head(queue).number>> \o GroupOf(Tail(queue), r)
       ELSE GroupOf(Tail(queue), r)

\* the outcomes of a flush: 0 when every group is appended, k when the append
\* of the k-th group raises
FlushOutcomes(queue) == 0..Len(RepoOrder(queue))

\* _flush_queue: the groups are appended in order; the queue is cleared after
\* the last one; an exception ends the flush and is swallowed, the queue stays
_flush_queue(queue, files, fail_at) ==
  IF queue = << >> THEN [queue |-> queue, files |-> files]
  ELSE LET order   == RepoOrder(queue)
           upto    == IF fail_at = 0 THEN Len(order) ELSE fail_at - 1
           written == {order[i] : i \in 1..upto}
       IN  [queue |-> IF fail_at = 0 THEN << >> ELSE queue,
            files |-> [r \in Repos |-> IF r \in written
                                       THEN files[r] \o GroupOf(queue, r)
                                       ELSE files[r]]]

\* cache_pr_immediately: append, and flush when the queue reached batch_size
cache_pr_immediately(queue, files, size, item, fail_at) ==
  LET q1 == Append(queue, item)
  IN  IF Len(q1) >= size THEN _flush_queue(q1, files, fail_at)
      ELSE [queue |-> q1, files |-> files]

\* load_cached_prs: every line of the file, in order
load_cached_prs(files, r) == files[r]

\* get_cached_pr_numbers: the set of the numbers of the lines
get_cached_pr_numbers(files, r) == Range(files[r])

(***************************************************************************)
(* The remote side, as one crawl sees it.  An environment fixes the        *)
(* listing of closed PRs, what each page fetch meets and which PR pages    *)
(* can be scraped; a page is fetched at most once per pass.                *)
(***************************************************************************)
FilesUrl(n) == [num |-> n, suffix |-> "/files"]

\* the PR links _extract_pr_urls_from_page finds on listing page p of a
\* listing with `listed` pages: the PR of the page, a link below it, and the
\* last PR of the page before, which has moved down
Listing(listed, p) ==
  IF p > listed THEN << >>
  ELSE <<PullUrl(p), FilesUrl(p)>> \o (IF p > 1 THEN <<PullUrl(p - 1)>> ELSE << >>)

FaultKinds == {"rate_limited", "error", "timeout"}

NoFault == [kind |-> "none", first |-> 0, lasting |-> FALSE]

Faults ==
  {NoFault} \cup [kind : FaultKinds, first : 1..MaxFaultPage, lasting : BOOLEAN]

\* what the fetch of page p meets: "ok", HTTP 429 ("rate_limited"), another
\* request error ("error"), or no answer within the 10 s of future.result
FetchOutcome(fault, p) ==
  IF fault.kind # "none" /\ p >= fault.first /\ (fault.lasting \/ p = fault.first)
  THEN fault.kind ELSE "ok"

\* HTTPClient.get_soup: None on an HTTPError (429 included) and on any other
\* exception
get_soup(outcome) == IF outcome = "ok" THEN "soup" ELSE "None"

\* _fetch_page_urls: [] when get_soup gave None
_fetch_page_urls(e, p) ==
  IF get_soup(FetchOutcome(e.fault, p)) = "None" THEN << >>
  ELSE Listing(e.listed, p)

Envs ==
  [limit : 0..MaxCap, listed : 0..MaxListed, fault : Faults,
   scrape_fails : {{}} \cup {{u} : u \in Urls}]

NoEnv == [limit |-> 0, listed |-> 0, fault |-> NoFault, scrape_fails |-> {}]

(***************************************************************************)
(* _discover_pr_urls_parallel.                                             *)
(***************************************************************************)
\* getattr(state, f'{pr_state}_prs_found', 0)
PrsFound(st, pr_state) ==
  IF pr_state = "open" THEN st.open_prs_found ELSE st.closed_prs_found

LastPage(st, pr_state) ==
  IF pr_state = "open" THEN st.last_open_page ELSE st.last_closed_page

Prefix(s, n) == SubSeq(s, 1, Min(n, Len(s)))

\* the locals of the discovery loop when it is entered
DiscoveryEntry(st, pr_state) ==
  [page |-> LastPage(st, pr_state) + 1,
   consecutive_empty |-> 0, consecutive_failures |-> 0,
   backoff_delay |-> BASE_BACKOFF,
   total_found |-> PrsFound(st, pr_state),
   futures |-> << >>, found_at_submit |-> 0, streak_only_rl |-> TRUE,
   stop |-> "none"]

NoDiscovery ==
  [page |-> 0, consecutive_empty |-> 0, consecutive_failures |-> 0,
   backoff_delay |-> BASE_BACKOFF, total_found |-> 0,
   futures |-> << >>, found_at_submit |-> 0, streak_only_rl |-> TRUE,
   stop |-> "none"]

\* the pages a batch submits
BatchPages(page, consecutive_failures) ==
  LET size == Max(1, DISCOVERY_BATCH - consecutive_failures)
      last == Min(page + size - 1, max_pages)
  IN  [i \in 1..(last - page + 1) |-> page + i - 1]

\* the running values of the loop over the results of one batch
BatchStart(st, d) ==
  [st |-> st, updated |-> FALSE, returned |-> FALSE, broke |-> FALSE,
   consecutive_empty |-> d.consecutive_empty,
   consecutive_failures |-> d.consecutive_failures,
   backoff_delay |-> d.backoff_delay, total_found |-> d.total_found,
   batch_found |-> 0, batch_failures |-> 0, batch_empty_pages |-> 0,
   batch_rate_limited |-> 0]

\* one turn of `for page_num, future in futures`
PageResult(uni, e, pr_state, b, page_num) ==
  LET outcome == FetchOutcome(e.fault, page_num)
  IN
  IF outcome = "timeout"
  THEN \* future.result raises TimeoutError, whose text has no "429"
       [b EXCEPT !.batch_failures = @ + 1, !.batch_empty_pages = @ + 1]
  ELSE
    LET page_urls == _fetch_page_urls(e, page_num)
    IN
    IF page_urls = << >>
    THEN [b EXCEPT !.batch_empty_pages = @ + 1,
                   !.batch_rate_limited =
                      IF outcome = "rate_limited" THEN @ + 1 ELSE @]
    ELSE
      LET remaining_slots == e.limit - b.total_found
      IN
      IF e.limit # 0 /\ remaining_slots <= 0
      THEN [b EXCEPT !.broke = TRUE]
      ELSE
        LET urls == IF e.limit # 0 THEN Prefix(page_urls, remaining_slots)
                    ELSE page_urls
            st1  == _update_discovery_progress(uni, b.st, pr_state, page_num,
                                               urls, FALSE).state
            found == PrsFound(st1, pr_state)
        IN  [b EXCEPT !.st = st1, !.updated = TRUE,
                      !.consecutive_empty = 0, !.consecutive_failures = 0,
                      !.backoff_delay = BASE_BACKOFF,
                      !.batch_found = @ + Len(urls),
                      !.total_found = found,
                      !.returned = (e.limit # 0 /\ found >= e.limit)]

\* the loop over the results of the batch, left by break or by return
RECURSIVE BatchResults(_, _, _, _, _)
BatchResults(uni, e, pr_state, b, futures) ==
  IF futures = << >> \/ b.returned \/ b.broke THEN b
  ELSE BatchResults(uni, e, pr_state,
                    PageResult(uni, e, pr_state, b, Head(futures)),
                    Tail(futures))

(***************************************************************************)
(* Variables.                                                              *)
(***************************************************************************)
VARIABLES
  unified,      \* TRUE: the scraper was built with a UnifiedCacheManager
  state,        \* the crawl state object of the running pass
  checkpoint,   \* the state snapshot on disk (NoCheckpoint: no file)
  calls,        \* API-level calls made so far (SpecState)
  lastCall,     \* the kind of the last API-level call and what it was given
  write_queue,  \* the write queue of the cache manager
  pr_cache,     \* the PR cache file of each repository, as its lines
  batch_size,   \* the flush threshold of the cache manager
  enqueued,     \* every item given to cache_pr_immediately so far, in order
  flush_failures, \* flushes that failed part-way so far
  lastCacheOp,  \* the last operation on the cache store and what it met
  pc,           \* where the pass of scrape_all_prs_aggressively stands
  env,          \* the remote side and the cap of this crawl
  disc,         \* the locals of _discover_pr_urls_parallel
  work,         \* cached_pr_numbers, filtered_urls and the position in it
  trial,        \* which of the two runs compared this is
  output_log,   \* the output file of the run: the URL of each record, in order
  crawl_run,    \* the call of crawl_repositories in progress, if any
  quota_case,   \* the repository given to _meets_minimum_pr_requirement
  retry,        \* the locals of _continue_scraping_until_requirement_met
  task,         \* the call of _crawl_single_repository and what became of it
  failed_repositories,      \* FailedIssueCache.failed_repositories
  failed_repositories_file, \* 'failed_repositories' of the cache file
  _crawled_repos, \* CheckpointManager._crawled_repos, as saved at once
  legacy_run,     \* the call of the legacy crawl_repositories, if any
  durable,        \* one repository from its last flush to the success count
  racers,         \* the two discovery threads of _discover_urls_aggressively
  save_run,       \* the state file and the save or load in progress
  proc,           \* the crawler process under a KeyboardInterrupt
  failure_counts, \* FailedIssueCache.failure_counts
  blocked_until,  \* FailedIssueCache.blocked_until
  failed_issues,  \* FailedIssueCache.failed_issues
  failed_issues_file, \* what _save_cache last wrote of the three
  now,          \* time.time(), in whole seconds
  breaker_log   \* the failures in a row so far and the last answer given

stateVars == <<unified, state, checkpoint>>

apiVars == <<calls, lastCall>>

cacheVars == <<write_queue, pr_cache, batch_size>>

cacheLogVars == <<enqueued, flush_failures, lastCacheOp>>

engineVars == <<pc, env, disc, work, trial>>

crawlVars == <<output_log, crawl_run>>

quotaVars == <<quota_case, retry>>

breakerVars == <<failure_counts, blocked_until, failed_issues,
                 failed_issues_file, now, breaker_log>>

singleVars == <<task, failed_repositories, failed_repositories_file>>

legacyVars == <<_crawled_repos, legacy_run>>

faultVars == <<durable, racers, save_run, proc>>

restVars == <<crawlVars, quotaVars, breakerVars, singleVars, legacyVars,
              faultVars>>

vars == <<stateVars, apiVars, cacheVars, cacheLogVars, engineVars, restVars>>

NoCacheOp == [op |-> "none"]

CacheIdle ==
  /\ write_queue = << >>
  /\ pr_cache = NoFiles
  /\ batch_size = CACHE_FLUSH_BATCH_SIZE
  /\ enqueued = << >>
  /\ flush_failures = 0
  /\ lastCacheOp = NoCacheOp

NoWork == [cached |-> {}, urls |-> << >>, i |-> 0]

NoTrial == [name |-> "single", interrupted |-> FALSE, single_final |-> create_initial_state]

EngineIdle ==
  /\ pc = "idle"
  /\ env = NoEnv
  /\ disc = NoDiscovery
  /\ work = NoWork
  /\ trial = NoTrial

\* the value of crawl_run.returned after a run that was killed
Killed == 0 - 1

\* repositories, star_threshold, crawled_urls and submitted keep what the
\* call of crawl_repositories was given, found on disk and submitted, until
\* the first step after the submission; failed counts the tasks of the run
\* that ended without a record (the error branches of the completion loop)
NoRun == [pc |-> "idle", mode |-> "threads", tasks |-> << >>, runs |-> 0,
          successful_count |-> 0, returned |-> 0, failed |-> 0,
          repositories |-> << >>, star_threshold |-> 0, crawled_urls |-> {},
          submitted |-> << >>]

CrawlIdle ==
  /\ output_log = << >>
  /\ crawl_run = NoRun

NoQuotaCase == [pc |-> "idle"]

NoRetry == [pc |-> "idle"]

QuotaIdle == quota_case = NoQuotaCase /\ retry = NoRetry

EmptyDict == [r \in {} |-> 0]

NoBreakerOp == [op |-> "none"]

NoBreakerLog == [streak |-> 0, reached_at |-> 0, last_failed_at |-> 0,
                 ticks |-> 0, marks |-> 0, last |-> NoBreakerOp]

BreakerIdle ==
  /\ failure_counts = EmptyDict
  /\ blocked_until = EmptyDict
  /\ failed_issues = EmptyDict
  /\ failed_issues_file = EmptyDict
  /\ now = 0
  /\ breaker_log = NoBreakerLog

NoTask == [pc |-> "idle"]

SingleIdle ==
  /\ task = NoTask
  /\ failed_repositories = EmptyDict
  /\ failed_repositories_file = EmptyDict

\* repositories, output_crawled, entries and at keep what the call of
\* filter_uncrawled_repositories was given, found on disk and in the
\* checkpoint data, and when it was made, and uncrawled what it returned,
\* until the first step after the call
NoLegacyRun == [pc |-> "idle", tasks |-> << >>, calls |-> 0, ticks |-> 0,
                moves |-> 0, repositories |-> << >>, output_crawled |-> {},
                entries |-> EmptyDict, at |-> 0, uncrawled |-> << >>]

LegacyIdle ==
  /\ _crawled_repos = EmptyDict
  /\ legacy_run = NoLegacyRun

NoDurable == [pc |-> "idle"]

NoRacers == [pc |-> "idle"]

NoSave == [pc |-> "idle"]

NoProc == [pc |-> "idle"]

FaultIdle ==
  /\ durable = NoDurable
  /\ racers = NoRacers
  /\ save_run = NoSave
  /\ proc = NoProc

RestIdle ==
  CrawlIdle /\ QuotaIdle /\ BreakerIdle /\ SingleIdle /\ LegacyIdle /\ FaultIdle

\* what the actions of SpecState leave alone
outsideState == <<cacheVars, cacheLogVars, engineVars, restVars>>

\* what the actions of SpecCache leave alone
outsideCache == <<stateVars, apiVars, engineVars, restVars>>

NoCall == [op |-> "none"]

(***************************************************************************)
(* SpecState: the two transition functions of the crawl state, called with *)
(* any arguments in any order on one state object.                         *)
(***************************************************************************)
InitState ==
  /\ unified \in BOOLEAN
  /\ state = create_initial_state
  /\ checkpoint = NoCheckpoint
  /\ calls = 0
  /\ lastCall = NoCall
  /\ CacheIdle
  /\ EngineIdle
  /\ RestIdle

\* the discovered list a call of recordDiscoveredPage leaves behind
DiscoveredAfter(st, pr_type, page, new_urls, pages_complete) ==
  _update_discovery_progress(unified, st, pr_type, page, new_urls,
                             pages_complete).state.discovered_pr_urls

IsPrefix(s, t) == Len(s) <= Len(t) /\ SubSeq(t, 1, Len(s)) = s

\* the list `once` is the list `before` followed by the URLs of new_urls that
\* were absent from it
AppendsAbsent(before, new_urls, once) ==
  /\ IsPrefix(before, once)
  /\ Range(once) = Range(before) \cup Range(new_urls)
  /\ Len(once) - Len(before) = Cardinality(Range(new_urls) \ Range(before))

\* recordDiscoveredPage; lastCall notes what the call did to the list and
\* whether the same call made again would change it
RecordDiscoveredPage ==
  /\ calls < MaxCalls
  /\ \E pr_type \in PrTypes, page \in 1..MaxPage,
        new_urls \in SeqsUpTo(PullUrls, MaxPageUrls), pages_complete \in BOOLEAN :
       LET r == _update_discovery_progress(unified, state, pr_type, page,
                                           new_urls, pages_complete)
       IN  /\ state' = r.state
           /\ checkpoint' = IF r.save THEN r.state ELSE checkpoint
           /\ lastCall' =
                [op |-> "discovery", delivered |-> Len(new_urls),
                 added |-> Len(r.state.discovered_pr_urls)
                             - Len(state.discovered_pr_urls),
                 appends_absent |->
                   AppendsAbsent(state.discovered_pr_urls, new_urls,
                                 r.state.discovered_pr_urls),
                 idempotent |->
                   DiscoveredAfter(r.state, pr_type, page, new_urls, pages_complete)
                     = r.state.discovered_pr_urls]
  /\ calls' = calls + 1
  /\ UNCHANGED <<unified, outsideState>>

\* recordScrapeOutcome, with the arguments the scraping loops pass:
\* (pr_info.number, True) on success, (int(url.split('/pull/')[-1]), False, url)
\* on failure
RecordScrapeOutcome ==
  /\ calls < MaxCalls
  /\ \E url \in Urls, success \in BOOLEAN :
       /\ success \/ IntOfPullSuffix(url) # ParseError
       /\ LET pr_number == IF success THEN _extract_pr_number(url)
                           ELSE IntOfPullSuffix(url)
              r == _update_scraping_progress(unified, state, pr_number, success,
                                             ~success, url)
          IN  /\ state' = r.state
              /\ checkpoint' = IF r.save THEN r.state ELSE checkpoint
              /\ lastCall' = [op |-> "scrape", success |-> success]
  /\ calls' = calls + 1
  /\ UNCHANGED <<unified, outsideState>>

NextState == RecordDiscoveredPage \/ RecordScrapeOutcome

SpecState == InitState /\ [][NextState]_vars

(***************************************************************************)
(* Claims on SpecState.                                                    *)
(***************************************************************************)
\* C1: a PR number n is never in scraped_pr_numbers while its URL .../pull/n
\* is in failed_pr_urls, whatever the order of the outcomes recorded for it.
C1_AtMostOneOfScrapedAndFailed ==
  \A n \in PrNumbers :
    ~(n \in Range(state.scraped_pr_numbers) /\ PullUrl(n) \in Range(state.failed_pr_urls))

\* C5: in every reachable state discovered_pr_urls has no duplicate, and the
\* last call of recordDiscoveredPage kept the list as a prefix, appended
\* exactly the URLs that were absent, each once, and a second call with the
\* same category, page and URL list would leave the list as the first left it.
C5_IdempotentDiscovery ==
  /\ NoDup(state.discovered_pr_urls)
  /\ lastCall.op = "discovery" => lastCall.appends_absent /\ lastCall.idempotent

\* C5 witness: a page whose URLs were all discovered before has been delivered
\* again, and nothing was appended
C5_PageRedelivered ==
  /\ lastCall.op = "discovery"
  /\ lastCall.delivered > 0
  /\ lastCall.added = 0
  /\ state.discovered_pr_urls # << >>

\* C28: after every call of recordScrapeOutcome, under either manager,
\* scraping_complete is true exactly when some URL has been discovered and
\* the scraped numbers and the failed URLs together are at least as many as
\* the discovered URLs.
C28_ScrapingCompleteRecomputed ==
  lastCall.op = "scrape" =>
    (state.scraping_complete <=>
       /\ Len(state.discovered_pr_urls) > 0
       /\ Len(state.scraped_pr_numbers) + Len(state.failed_pr_urls)
            >= Len(state.discovered_pr_urls))

(***************************************************************************)
(* SpecCache: the cache store under any sequence of cache_pr_immediately,  *)
(* flush_cache, timer flushes and restarts of the process.                 *)
(***************************************************************************)
StateIdle ==
  /\ unified = TRUE
  /\ state = create_initial_state
  /\ checkpoint = NoCheckpoint
  /\ calls = 0
  /\ lastCall = NoCall
  /\ EngineIdle

InitCache ==
  /\ StateIdle
  /\ write_queue = << >>
  /\ pr_cache = NoFiles
  /\ batch_size \in {SmallBatchSize, CACHE_FLUSH_BATCH_SIZE}
  /\ enqueued = << >>
  /\ flush_failures = 0
  /\ lastCacheOp = NoCacheOp
  /\ RestIdle

\* the outcomes a flush of this queue may have now
FlushOutcomesNow(queue) ==
  IF flush_failures < MaxFlushFailures THEN FlushOutcomes(queue) ELSE {0}

\* what lastCacheOp keeps of a flush
FlushNote(op, queue, files, fail_at, r) ==
  [op |-> op, ok |-> fail_at = 0, flushed |-> Range(queue),
   was_empty |-> queue = << >>, unchanged |-> r.files = files /\ r.queue = queue]

\* enqueueItem
CachePrImmediately ==
  /\ Len(enqueued) < MaxEnqueues
  /\ \E item \in CacheItems :
       LET q1 == Append(write_queue, item)
       IN  \E fail_at \in (IF Len(q1) >= batch_size THEN FlushOutcomesNow(q1) ELSE {0}) :
             LET r == cache_pr_immediately(write_queue, pr_cache, batch_size, item, fail_at)
             IN  /\ write_queue' = r.queue
                 /\ pr_cache' = r.files
                 /\ enqueued' = Append(enqueued, item)
                 /\ flush_failures' = IF fail_at = 0 THEN flush_failures
                                      ELSE flush_failures + 1
                 /\ lastCacheOp' =
                      IF Len(q1) >= batch_size
                      THEN FlushNote("enqueue_flush", q1, pr_cache, fail_at, r)
                      ELSE [op |-> "enqueue"]
  /\ UNCHANGED <<outsideCache, batch_size>>

Flush(op) ==
  /\ \E fail_at \in FlushOutcomesNow(write_queue) :
       LET r == _flush_queue(write_queue, pr_cache, fail_at)
       IN  /\ write_queue' = r.queue
           /\ pr_cache' = r.files
           /\ flush_failures' = IF fail_at = 0 THEN flush_failures
                                ELSE flush_failures + 1
           /\ lastCacheOp' = FlushNote(op, write_queue, pr_cache, fail_at, r)
  /\ UNCHANGED <<outsideCache, batch_size, enqueued>>

\* flush
FlushCache == Flush("flush")

\* the timer flush of the writer thread
BackgroundWriter ==
  /\ write_queue # << >>
  /\ Flush("timer_flush")

\* the process ends and a new one builds its cache manager on the same files
NewCacheManager ==
  /\ write_queue' = << >>
  /\ lastCacheOp' = [op |-> "restart"]
  /\ UNCHANGED <<outsideCache, pr_cache, batch_size, enqueued, flush_failures>>

NextCache == CachePrImmediately \/ FlushCache \/ BackgroundWriter \/ NewCacheManager

SpecCache == InitCache /\ [][NextCache]_vars

(***************************************************************************)
(* Claims on SpecCache.                                                    *)
(***************************************************************************)
FlushOps == {"flush", "timer_flush", "enqueue_flush"}

\* C3: an item in the write queue is absent from load_cached_prs; after a
\* flush that returned with every group appended each item it flushed is
\* exactly once in load_cached_prs and is in get_cached_pr_numbers; a flush
\* on an empty queue changes neither the files nor the queue.
C3_FlushBoundary ==
  /\ \A item \in Range(write_queue) :
       Count(load_cached_prs(pr_cache, item.repo_url), item.number) = 0
  /\ (lastCacheOp.op \in FlushOps /\ lastCacheOp.ok) =>
       \A item \in lastCacheOp.flushed :
         /\ Count(load_cached_prs(pr_cache, item.repo_url), item.number) = 1
         /\ item.number \in get_cached_pr_numbers(pr_cache, item.repo_url)
  /\ (lastCacheOp.op \in FlushOps /\ lastCacheOp.was_empty) => lastCacheOp.unchanged

\* how often the item is in the write queue or in the cache file of its
\* repository
Held(queue, files, item) ==
  Count(queue, item) + Count(load_cached_prs(files, item.repo_url), item.number)

\* C24: under any order of enqueues, manual flushes and timer flushes, an
\* item is never held (in the queue or in the cache file of its own
\* repository) more often than it was enqueued, so it is never written
\* twice; and after a flush that returned with every group appended the
\* queue is empty and each item it flushed is in its repository's file, so
\* it is not lost.
C24_EveryItemWrittenOnce ==
  /\ \A item \in CacheItems :
       Held(write_queue, pr_cache, item) <= Count(enqueued, item)
  /\ (lastCacheOp.op \in FlushOps /\ lastCacheOp.ok) =>
       /\ write_queue = << >>
       /\ \A item \in lastCacheOp.flushed :
            Count(load_cached_prs(pr_cache, item.repo_url), item.number) >= 1

\* what holds: a step in which no append raises, and which is no restart of
\* the process, holds each item once more exactly when it enqueued it
FaultFreeStepsConserveItems ==
  [][(lastCacheOp'.op # "restart" /\ flush_failures' = flush_failures) =>
       \A item \in CacheItems :
         Held(write_queue', pr_cache', item) - Held(write_queue, pr_cache, item)
           = Count(enqueued', item) - Count(enqueued, item)]_vars

\* C37: after a flush failed part-way, when a later flush has returned with
\* every group appended, no item is in the cache file of its repository
\* more often than it was enqueued, and every item that flush had in its
\* queue is in the file.
C37_PartialFlushThenCleanLog ==
  (lastCacheOp.op \in FlushOps /\ lastCacheOp.ok /\ flush_failures > 0) =>
    /\ \A item \in CacheItems :
         Count(load_cached_prs(pr_cache, item.repo_url), item.number)
           <= Count(enqueued, item)
    /\ \A item \in lastCacheOp.flushed :
         Count(load_cached_prs(pr_cache, item.repo_url), item.number) >= 1

(***************************************************************************)
(* SpecEngine: scrape_all_prs_aggressively on one repository, run once to  *)
(* its end (trial "single") and then again from nothing with one           *)
(* interruption (trial "split"), against the same remote side.             *)
(***************************************************************************)
REPO == "repoA"

StateUntouched ==
  /\ calls = 0
  /\ lastCall = NoCall
  /\ enqueued = << >>
  /\ flush_failures = 0
  /\ lastCacheOp = NoCacheOp

InitEngine ==
  /\ StateUntouched
  /\ unified \in BOOLEAN
  /\ state = create_initial_state
  /\ checkpoint = NoCheckpoint
  /\ write_queue = << >>
  /\ pr_cache = NoFiles
  /\ batch_size \in (IF unified THEN {SmallBatchSize, CACHE_FLUSH_BATCH_SIZE}
                      ELSE {LEGACY_BATCH_SIZE})
  /\ pc = "start"
  /\ env \in Envs
  /\ disc = NoDiscovery
  /\ work = NoWork
  /\ trial = NoTrial
  /\ RestIdle

\* what the actions of SpecEngine leave alone
outsideEngine == <<apiVars, cacheLogVars, restVars>>

\* load_state / load_crawl_state, or the initial state when there is no file
LoadedState == IF checkpoint = NoCheckpoint THEN create_initial_state ELSE checkpoint

\* scrape_all_prs_aggressively up to the entry of a phase
StartPass ==
  /\ pc = "start"
  /\ state' = LoadedState
  /\ work' = [NoWork EXCEPT !.cached = get_cached_pr_numbers(pr_cache, REPO)]
  /\ IF ~LoadedState.discovery_complete
     THEN IF CRAWL_CLOSED_PRS /\ ~LoadedState.closed_pages_complete
          THEN pc' = "loop" /\ disc' = DiscoveryEntry(LoadedState, "closed")
          ELSE pc' = "discovered" /\ disc' = NoDiscovery
     ELSE pc' = "scraping_entry" /\ disc' = NoDiscovery
  /\ UNCHANGED <<unified, checkpoint, cacheVars, env, trial, outsideEngine>>

\* a loop head without the test of consecutive_empty, to compare LoopExit with
LoopExitWithoutEmptyStop(d, limit) ==
  IF d.page > max_pages THEN "max_pages"
  ELSE IF limit # 0 /\ d.total_found >= limit THEN "cap"
  ELSE "none"

\* why the while loop is left at its head ("none": it is not)
LoopExit(d, limit) ==
  IF d.page > max_pages THEN "max_pages"
  ELSE IF limit # 0 /\ d.total_found >= limit THEN "cap"
  ELSE IF d.consecutive_empty >= max_consecutive_empty THEN "empty"
  ELSE "none"

\* the head of the while loop lets a batch through: its pages are submitted
SubmitBatch ==
  /\ pc = "loop"
  /\ LoopExit(disc, env.limit) = "none"
  /\ disc' = [disc EXCEPT !.futures = BatchPages(disc.page, disc.consecutive_failures),
                           !.found_at_submit = Len(state.discovered_pr_urls)]
  /\ pc' = "results"
  /\ UNCHANGED <<stateVars, cacheVars, env, work, trial, outsideEngine>>

\* the loop is left: the category is marked complete and the state saved
FinishCategory ==
  /\ pc = "loop"
  /\ LoopExit(disc, env.limit) # "none"
  /\ state' = [state EXCEPT !.closed_pages_complete = TRUE]
  /\ checkpoint' = state'
  /\ disc' = [disc EXCEPT !.stop = LoopExit(disc, env.limit)]
  /\ pc' = "discovered"
  /\ UNCHANGED <<unified, cacheVars, env, work, trial, outsideEngine>>

\* consecutive_empty after the batch
EmptyAfter(b, futures) ==
  IF b.batch_empty_pages = Len(futures) THEN b.consecutive_empty + 1
  ELSE IF b.batch_found > 0 THEN 0
  ELSE b.consecutive_empty + 1

\* future.exception() of a page future: _fetch_page_urls catches every
\* Exception and returns [], so no future ever holds one
FutureException(outcome) == "None"

\* rate_limit_failures: the futures whose exception has "429" in its text
RateLimitFailures(e, futures) ==
  Cardinality({i \in 1..Len(futures) :
                 FutureException(FetchOutcome(e.fault, futures[i])) = "429"})

\* a batch end that halves the delay, to compare BackoffAfterBatch with
BackoffHalved(backoff_delay, batch_failures, rate_limit_failures) ==
  backoff_delay \div 2

\* backoff_delay after `if batch_failures > 0` at the end of a batch
BackoffAfterBatch(backoff_delay, batch_failures, rate_limit_failures) ==
  IF batch_failures > 0
  THEN IF rate_limit_failures > 0
       THEN Min(backoff_delay * 2, max_backoff)
       ELSE BASE_BACKOFF
  ELSE backoff_delay

\* the results of the batch are processed, up to the next turn of the loop
ProcessBatch ==
  /\ pc = "results"
  /\ LET b == BatchResults(unified, env, "closed", BatchStart(state, disc), disc.futures)
         size == Max(1, DISCOVERY_BATCH - disc.consecutive_failures)
         empty == EmptyAfter(b, disc.futures)
         capped == env.limit # 0 /\ b.total_found >= env.limit
         d1 == [disc EXCEPT
                  !.page = IF b.returned THEN @ ELSE @ + size,
                  !.consecutive_empty = IF b.returned THEN b.consecutive_empty ELSE empty,
                  !.consecutive_failures = b.consecutive_failures,
                  !.backoff_delay =
                     IF b.returned \/ capped THEN b.backoff_delay
                     ELSE BackoffAfterBatch(b.backoff_delay, b.batch_failures,
                                            RateLimitFailures(env, disc.futures)),
                  !.total_found = b.total_found,
                  !.streak_only_rl =
                     IF b.returned \/ empty = 0 THEN TRUE
                     ELSE (IF disc.consecutive_empty = 0 THEN TRUE ELSE @)
                          /\ b.batch_rate_limited = Len(disc.futures),
                  !.stop = IF b.returned THEN "cap_return"
                           ELSE IF capped THEN "cap_break" ELSE "none"]
     IN  /\ disc' = d1
         /\ state' = IF ~b.returned /\ capped
                      THEN [b.st EXCEPT !.closed_pages_complete = TRUE]
                      ELSE b.st
         /\ checkpoint' = IF ~b.returned /\ capped THEN state'
                           ELSE IF b.updated /\ ~unified THEN b.st
                           ELSE checkpoint
         /\ pc' = IF b.returned \/ capped THEN "discovered" ELSE "loop"
  /\ UNCHANGED <<unified, cacheVars, env, work, trial, outsideEngine>>

\* the end of _discover_urls_aggressively
EndDiscovery ==
  /\ pc = "discovered"
  /\ state' = [state EXCEPT !.discovery_complete =
                   /\ (~CRAWL_OPEN_PRS \/ state.open_pages_complete)
                   /\ (~CRAWL_CLOSED_PRS \/ state.closed_pages_complete)]
  /\ checkpoint' = state'
  /\ pc' = "scraping_entry"
  /\ UNCHANGED <<unified, cacheVars, env, disc, work, trial, outsideEngine>>

\* a filter that takes the PR number of a URL from wherever "/pull/<n>" is in
\* it, to compare _get_remaining_urls with
RemainingByPrNumber(st) ==
  LET Remains(url) ==
        /\ url \notin Range(st.failed_pr_urls)
        /\ _extract_pr_number(url) \notin Range(st.scraped_pr_numbers)
  IN  SelectSeq(st.discovered_pr_urls, Remains)

\* get_remaining_urls / _get_remaining_urls
_get_remaining_urls(st) ==
  LET Remains(url) ==
        /\ url \notin Range(st.failed_pr_urls)
        /\ \/ IntOfPullSuffix(url) = ParseError
           \/ IntOfPullSuffix(url) \notin Range(st.scraped_pr_numbers)
  IN  SelectSeq(st.discovered_pr_urls, Remains)

\* filtered_urls of _scrape_prs_aggressively
FilteredUrls(st, cached_pr_numbers) ==
  LET NotCached(url) ==
        \/ IntOfPullSuffix(url) = ParseError
        \/ IntOfPullSuffix(url) \notin cached_pr_numbers
  IN  SelectSeq(_get_remaining_urls(st), NotCached)

\* phase 2 is entered, or skipped when scraping_complete is set or nothing
\* is left to scrape
BeginScraping ==
  /\ pc = "scraping_entry"
  /\ LET urls == FilteredUrls(state, work.cached)
     IN  IF state.scraping_complete \/ urls = << >>
         THEN pc' = "flush" /\ work' = work
         ELSE pc' = "scraping" /\ work' = [work EXCEPT !.urls = urls, !.i = 1]
  /\ UNCHANGED <<stateVars, cacheVars, env, disc, trial, outsideEngine>>

\* the size the cache manager of this scraper flushes at
EngineBatchSize == IF unified THEN batch_size ELSE LEGACY_BATCH_SIZE

\* one turn of `for url, future in futures` of _scrape_prs_aggressively
ScrapeResult ==
  /\ pc = "scraping"
  /\ LET url == work.urls[work.i]
         ok  == url \notin env.scrape_fails
         c   == IF ok
                THEN cache_pr_immediately(write_queue, pr_cache, EngineBatchSize,
                       [repo_url |-> REPO, number |-> _extract_pr_number(url)], 0)
                ELSE [queue |-> write_queue, files |-> pr_cache]
         r   == IF ok
                THEN _update_scraping_progress(unified, state,
                                               _extract_pr_number(url), TRUE, FALSE, url)
                ELSE IF IntOfPullSuffix(url) = ParseError
                     THEN \* int() raises ValueError, which the loop swallows
                          [state |-> state, save |-> FALSE]
                     ELSE _update_scraping_progress(unified, state,
                                                    IntOfPullSuffix(url), FALSE, TRUE, url)
     IN  /\ write_queue' = c.queue
         /\ pr_cache' = c.files
         /\ state' = r.state
         /\ checkpoint' = IF r.save THEN r.state ELSE checkpoint
  /\ work' = [work EXCEPT !.i = @ + 1]
  /\ pc' = IF work.i = Len(work.urls) THEN "flush" ELSE "scraping"
  /\ UNCHANGED <<unified, batch_size, env, disc, trial, outsideEngine>>

\* the forced flush at the end of the pass
FinalFlush ==
  /\ pc = "flush"
  /\ LET r == _flush_queue(write_queue, pr_cache, 0)
     IN  write_queue' = r.queue /\ pr_cache' = r.files
  /\ pc' = "done"
  /\ UNCHANGED <<stateVars, batch_size, env, disc, work, trial, outsideEngine>>

\* the timer flush of the writer thread, while a pass runs
TimerFlushInPass ==
  /\ pc \notin {"start", "done"}
  /\ write_queue # << >>
  /\ LET r == _flush_queue(write_queue, pr_cache, 0)
     IN  write_queue' = r.queue /\ pr_cache' = r.files
  /\ UNCHANGED <<stateVars, batch_size, engineVars, outsideEngine>>

\* the pass is cut: the state is saved, the process ends with what is in its
\* memory, and a new process starts the crawl of the repository again
Interrupt ==
  /\ trial.name = "split"
  /\ ~trial.interrupted
  /\ pc \notin {"start", "done"}
  /\ checkpoint' = state
  /\ state' = create_initial_state
  /\ write_queue' = << >>
  /\ disc' = NoDiscovery
  /\ work' = NoWork
  /\ pc' = "start"
  /\ trial' = [trial EXCEPT !.interrupted = TRUE]
  /\ UNCHANGED <<unified, pr_cache, batch_size, env, outsideEngine>>

\* the single pass has ended: its final state is kept and the crawl is run
\* again from nothing, on empty directories
StartSplitTrial ==
  /\ trial.name = "single"
  /\ pc = "done"
  /\ trial' = [name |-> "split", interrupted |-> FALSE, single_final |-> state]
  /\ state' = create_initial_state
  /\ checkpoint' = NoCheckpoint
  /\ write_queue' = << >>
  /\ pr_cache' = NoFiles
  /\ disc' = NoDiscovery
  /\ work' = NoWork
  /\ pc' = "start"
  /\ UNCHANGED <<unified, batch_size, env, outsideEngine>>

\* the pass has ended short of the quota: _continue_scraping_until_
\* requirement_met builds a new scraper on the same cache manager and calls
\* scrape_all_prs_aggressively with the limit of the attempt, which is at
\* most MAX_CLOSED_PRS_TO_CRAWL, the limit of the first pass
RetryPass ==
  /\ trial.name = "single"
  /\ pc = "done"
  /\ env.limit # 0
  /\ \E max_closed_prs \in 1..env.limit :
       env' = [env EXCEPT !.limit = max_closed_prs]
  /\ trial' = [trial EXCEPT !.name = "retry"]
  /\ state' = create_initial_state
  /\ disc' = NoDiscovery
  /\ work' = NoWork
  /\ pc' = "start"
  /\ UNCHANGED <<unified, checkpoint, cacheVars, outsideEngine>>

NextEngine ==
  \/ RetryPass
  \/ StartPass
  \/ SubmitBatch
  \/ FinishCategory
  \/ ProcessBatch
  \/ EndDiscovery
  \/ BeginScraping
  \/ ScrapeResult
  \/ FinalFlush
  \/ TimerFlushInPass
  \/ Interrupt
  \/ StartSplitTrial

SpecEngine == InitEngine /\ [][NextEngine]_vars

(***************************************************************************)
(* Claims on SpecEngine.                                                   *)
(***************************************************************************)
\* the scraped numbers of the snapshot on disk
SavedScraped ==
  IF checkpoint = NoCheckpoint THEN {} ELSE Range(checkpoint.scraped_pr_numbers)

\* C2: every PR number in scraped_pr_numbers, of the state in memory and of
\* the snapshot on disk, is in the durable PR log of the repository.
C2_ScrapedOnlyAfterFlush ==
  \A n \in Range(state.scraped_pr_numbers) \cup SavedScraped :
    n \in get_cached_pr_numbers(pr_cache, REPO)

\* the crawl states a and b are the same, the order of the lists ignored
SameCrawlState(a, b) ==
  /\ Range(a.discovered_pr_urls) = Range(b.discovered_pr_urls)
  /\ Range(a.scraped_pr_numbers) = Range(b.scraped_pr_numbers)
  /\ Range(a.failed_pr_urls) = Range(b.failed_pr_urls)
  /\ a.last_open_page = b.last_open_page
  /\ a.last_closed_page = b.last_closed_page
  /\ a.open_pages_complete = b.open_pages_complete
  /\ a.closed_pages_complete = b.closed_pages_complete
  /\ a.discovery_complete = b.discovery_complete
  /\ a.scraping_complete = b.scraping_complete

\* C4: when the crawl cut once by a save and a load has come to its end, its
\* crawl state is the one the single pass ended with on the same remote side.
C4_ResumeEquivalence ==
  (trial.name = "split" /\ trial.interrupted /\ pc = "done") =>
    SameCrawlState(state, trial.single_final)

\* C9: discovery never stops as exhausted, marking the category complete, on
\* a run of empty batches all of whose pages were rate-limited.
C9_RateLimitedIsNotExhaustion ==
  ~(disc.stop = "empty" /\ disc.streak_only_rl /\ state.closed_pages_complete)

\* C10: with a cap, no batch of page fetches is in flight that was submitted
\* when the URLs found for the category had reached the cap, under either
\* manager.
C10_NoBatchAfterCap ==
  (pc = "results" /\ env.limit # 0) => disc.found_at_submit < env.limit

\* C11: without a cap no batch is submitted once consecutive_empty has reached
\* max_consecutive_empty, and when discovery of the category has stopped as
\* exhausted closed_pages_complete is true in memory and in the snapshot on
\* disk.
C11_ExhaustionStopsAndMarks ==
  /\ (pc = "results" /\ env.limit = 0) =>
       disc.consecutive_empty < max_consecutive_empty
  /\ (env.limit = 0 /\ disc.stop = "empty") =>
       /\ state.closed_pages_complete
       /\ checkpoint # NoCheckpoint
       /\ checkpoint.closed_pages_complete

\* discovery without a cap has found PRs and then stopped as exhausted
C11_ExhaustedUncapped ==
  /\ env.limit = 0
  /\ disc.stop = "empty"
  /\ pc = "discovered"
  /\ state.discovered_pr_urls # << >>

\* the ways discovery stops on its cap: at the head of the loop, by the return
\* inside the results of a batch, by the break after a batch
CapStops == {"cap", "cap_return", "cap_break"}

\* C12: when discovery of the category has stopped on its cap,
\* closed_pages_complete is true when _discover_pr_urls_parallel has returned,
\* and discovery_complete is true once _discover_urls_aggressively has
\* computed it in that pass.
C12_CapStopMarksComplete ==
  (disc.stop \in CapStops /\ pc \notin {"loop", "results"}) =>
    /\ state.closed_pages_complete
    /\ (pc # "discovered" => state.discovery_complete)

\* C38: when the pass has ended and every discovered URL was scraped, has
\* failed, or was left out as cached, scraping_complete is true.
C38_AllAccountedMeansComplete ==
  (/\ pc = "done"
   /\ state.discovered_pr_urls # << >>
   /\ FilteredUrls(state, work.cached) = << >>) =>
    state.scraping_complete

\* the pages of the batch in flight that met HTTP 429
RateLimitedPages ==
  {i \in 1..Len(disc.futures) :
     FetchOutcome(env.fault, disc.futures[i]) = "rate_limited"}

\* the pages of the batch in flight whose fetch gave PR links
SuccessfulPages ==
  {i \in 1..Len(disc.futures) : _fetch_page_urls(env, disc.futures[i]) # << >>}

PlaceOf(url) ==
  IF url \in Range(state.discovered_pr_urls)
  THEN CHOOSE i \in 1..Len(state.discovered_pr_urls) :
         state.discovered_pr_urls[i] = url
  ELSE 0

\* the discovered URLs that are left to scrape: not failed, and with a
\* number after "/pull/" that is not scraped or with no number there
LeftToScrape ==
  {url \in Range(state.discovered_pr_urls) :
     /\ url \notin Range(state.failed_pr_urls)
     /\ \/ url.suffix # ""
        \/ url.num \notin Range(state.scraped_pr_numbers)}

\* C27: in every state of a pass, _get_remaining_urls gives the discovered
\* URLs that are not failed and whose number is not scraped or cannot be
\* parsed, each once and in the order of discovery.
C27_RemainingWork ==
  LET remaining == _get_remaining_urls(state)
  IN  /\ Range(remaining) = LeftToScrape
      /\ Len(remaining) = Cardinality(LeftToScrape)
      /\ \A i, j \in 1..Len(remaining) :
           i < j => PlaceOf(remaining[i]) < PlaceOf(remaining[j])

\* the scraping loop runs on a state in which a URL has failed and a URL
\* whose number cannot be parsed is left although its PR is scraped
C27_UnparseableLeft ==
  /\ pc = "scraping"
  /\ state.failed_pr_urls # << >>
  /\ \E n \in Range(state.scraped_pr_numbers) :
       FilesUrl(n) \in Range(_get_remaining_urls(state))

\* C30: a pass made by a retry attempt runs discovery of the closed category
\* before it scrapes, whatever the crawl state it loaded.
C30_RetryRediscovers ==
  (trial.name = "retry" /\ pc # "start") => disc.page > 0

\* the snapshot on disk has the discovered URLs and the page cursor of the
\* state in memory
DiscoveryPersisted ==
  state.discovered_pr_urls # << >> =>
    /\ checkpoint # NoCheckpoint
    /\ checkpoint.discovered_pr_urls = state.discovered_pr_urls
    /\ checkpoint.last_closed_page = state.last_closed_page

\* the snapshot on disk has the scraped numbers and the failed URLs of the
\* state in memory
ScrapingPersisted ==
  (state.scraped_pr_numbers # << >> \/ state.failed_pr_urls # << >>) =>
    /\ checkpoint # NoCheckpoint
    /\ checkpoint.scraped_pr_numbers = state.scraped_pr_numbers
    /\ checkpoint.failed_pr_urls = state.failed_pr_urls

\* C29: when a discovery batch has been processed the snapshot on disk has
\* the URLs and the page cursor recorded so far, and when the last scraping
\* batch has been processed it has the scraped numbers and the failed URLs
\* recorded so far, under either manager.
C29_PersistedByBatchEnd ==
  /\ pc \in {"loop", "discovered"} => DiscoveryPersisted
  /\ pc \in {"flush", "done"} => ScrapingPersisted

(***************************************************************************)
(* SpecCrawl: runs of crawl_repositories, one after the other, that write  *)
(* to one output file of the output directory.  A run may be killed at any *)
(* point; the next run is the resumed one.                                 *)
(***************************************************************************)
InputRepositories == [url : Repos, stars : 0..MaxStars]

InputFiles == SeqsUpTo(InputRepositories, MaxInput)

\* get_crawled_repositories_from_output: the url of every record of every
\* *.jsonl file of the output directory (the output file of the run is one)
get_crawled_repositories_from_output(log) == Range(log)

\* OutputHandler.get_existing_repository_urls: the url of every record of
\* the file
get_existing_repository_urls(log) == Range(log)

\* a filter that lets every repository through, to compare StarFilter with
KeepsAll(repositories, star_threshold) == repositories

RECURSIVE StarFilter(_, _)
\* [repo for repo in repositories if repo.stars >= star_threshold]
StarFilter(repositories, star_threshold) ==
  IF repositories = << >> THEN << >>
  ELSE LET rest == StarFilter(Tail(repositories), star_threshold)
       IN IF Head(repositories).stars >= star_threshold
          THEN <<Head(repositories)>> \o rest
          ELSE rest

RECURSIVE KeepUncrawled(_, _)
\* the loop of _filter_uncrawled_repositories
KeepUncrawled(repositories, crawled_urls) ==
  IF repositories = << >> THEN << >>
  ELSE LET rest == KeepUncrawled(Tail(repositories), crawled_urls)
       IN IF Head(repositories).url \notin crawled_urls
          THEN <<Head(repositories)>> \o rest
          ELSE rest

_filter_uncrawled_repositories(repositories, log) ==
  KeepUncrawled(repositories,
                get_crawled_repositories_from_output(log)
                  \cup get_existing_repository_urls(log))

\* OutputHandler.append_crawled_repository: one line more, or none and False
append_crawled_repository(log, url, write_success) ==
  IF write_success THEN Append(log, url) ELSE log

RemoveAt(seq, i) == SubSeq(seq, 1, i - 1) \o SubSeq(seq, i + 1, Len(seq))

\* a loop that lets the exception of one task out: nothing is left to process
AbortsOnException(tasks, i, raised) ==
  IF raised THEN << >> ELSE RemoveAt(tasks, i)

\* the tasks still to be processed once task i has its outcome: the try of
\* the completion loop (and of the worker's loop over its batch) is inside the
\* loop, so an exception ends the iteration and the loop goes on
TasksAfter(tasks, i, raised) == RemoveAt(tasks, i)

\* the run without the record of what the call was given
AfterSubmission(run) ==
  [run EXCEPT !.repositories = << >>, !.star_threshold = 0,
              !.crawled_urls = {}, !.submitted = << >>]

InitCrawl ==
  /\ StateIdle
  /\ CacheIdle
  /\ QuotaIdle
  /\ BreakerIdle
  /\ SingleIdle
  /\ LegacyIdle
  /\ FaultIdle
  /\ output_log = << >>
  /\ crawl_run = NoRun

outsideCrawl == <<stateVars, apiVars, cacheVars, cacheLogVars, engineVars,
                  quotaVars, breakerVars, singleVars, legacyVars, faultVars>>

\* crawl_repositories up to the submission of the tasks, in the thread pool
\* (EnhancedGitHubCrawler) or the process pool (MultiprocessCrawler)
StartRun ==
  /\ crawl_run.pc = "idle"
  /\ crawl_run.runs < MaxRuns
  /\ \E repositories \in InputFiles, star_threshold \in 0..MaxStars,
        mode \in {"threads", "processes"} :
       LET filtered_repos == StarFilter(repositories, star_threshold)
           uncrawled_repos ==
             _filter_uncrawled_repositories(filtered_repos, output_log)
       IN crawl_run' =
            [pc |-> IF uncrawled_repos = << >> THEN "idle" ELSE "running",
             mode |-> IF uncrawled_repos = << >> THEN "threads" ELSE mode,
             tasks |-> [i \in 1..Len(uncrawled_repos) |->
                          uncrawled_repos[i].url],
             runs |-> crawl_run.runs + 1,
             successful_count |-> 0,
             returned |-> 0,
             failed |-> 0,
             repositories |-> repositories,
             star_threshold |-> star_threshold,
             crawled_urls |-> {output_log[i] : i \in 1..Len(output_log)},
             submitted |-> uncrawled_repos]
  /\ UNCHANGED <<output_log, outsideCrawl>>

\* one future of the thread pool completes: future.result() raises, or the
\* record is appended when the crawl succeeded and the repository meets the
\* quota, or the additional scraping succeeded
CompleteThreadTask ==
  /\ crawl_run.pc = "running"
  /\ crawl_run.mode = "threads"
  /\ \E i \in 1..Len(crawl_run.tasks),
        raised, success, meets, additional, write_success \in BOOLEAN :
       LET appends == ~raised /\ success /\ (meets \/ additional)
           written == appends /\ write_success
       IN /\ output_log' =
               IF appends
               THEN append_crawled_repository(output_log, crawl_run.tasks[i],
                                              write_success)
               ELSE output_log
          /\ crawl_run' =
               [AfterSubmission(crawl_run) EXCEPT
                  !.tasks = TasksAfter(@, i, raised),
                  !.successful_count = IF written THEN @ + 1 ELSE @,
                  !.failed = IF written THEN @ ELSE @ + 1]
  /\ UNCHANGED outsideCrawl

\* crawl_repository_batch_worker handles one repository of its batch: the
\* crawl raises, or the record is appended when the crawl succeeded
CompleteWorkerTask ==
  /\ crawl_run.pc = "running"
  /\ crawl_run.mode = "processes"
  /\ \E i \in 1..Len(crawl_run.tasks),
        raised, success, write_success \in BOOLEAN :
       LET appends == ~raised /\ success
           written == appends /\ write_success
       IN /\ output_log' =
               IF appends
               THEN append_crawled_repository(output_log, crawl_run.tasks[i],
                                              write_success)
               ELSE output_log
          /\ crawl_run' =
               [AfterSubmission(crawl_run) EXCEPT
                  !.tasks = TasksAfter(@, i, raised),
                  !.successful_count = IF written THEN @ + 1 ELSE @,
                  !.failed = IF written THEN @ ELSE @ + 1]
  /\ UNCHANGED outsideCrawl

\* every task is done: crawl_repositories returns
FinishRun ==
  /\ crawl_run.pc = "running"
  /\ crawl_run.tasks = << >>
  /\ crawl_run' = [AfterSubmission(crawl_run) EXCEPT
                                    !.pc = "idle", !.mode = "threads",
                                    !.returned = crawl_run.successful_count,
                                    !.successful_count = 0]
  /\ UNCHANGED <<output_log, outsideCrawl>>

\* the process is killed with tasks outstanding
KillRun ==
  /\ crawl_run.pc = "running"
  /\ crawl_run.tasks # << >>
  /\ crawl_run' = [AfterSubmission(crawl_run) EXCEPT
                                    !.pc = "idle", !.mode = "threads",
                                    !.tasks = << >>,
                                    !.successful_count = 0,
                                    !.failed = 0,
                                    !.returned = Killed]
  /\ UNCHANGED <<output_log, outsideCrawl>>

NextCrawl ==
  \/ StartRun
  \/ CompleteThreadTask
  \/ CompleteWorkerTask
  \/ FinishRun
  \/ KillRun

SpecCrawl == InitCrawl /\ [][NextCrawl]_vars

(***************************************************************************)
(* Claims on SpecCrawl.                                                    *)
(***************************************************************************)
\* C6: over any sequence of runs that write to one output log, killed and
\* resumed runs included, every repository URL is in the log at most once,
\* and no repository with a record in the log is waiting to be crawled.
C6_AppendedAtMostOnce ==
  /\ \A r \in Repos : Count(output_log, r) <= 1
  /\ \A i \in 1..Len(crawl_run.tasks) :
       crawl_run.tasks[i] \notin Range(output_log)

(***************************************************************************)
(* SpecSubmit: one call of crawl_repositories, up to the submission of the *)
(* tasks, with any records in the output file that earlier runs may have   *)
(* left.                                                                   *)
(***************************************************************************)
InitSubmit ==
  /\ StateIdle
  /\ CacheIdle
  /\ QuotaIdle
  /\ BreakerIdle
  /\ SingleIdle
  /\ LegacyIdle
  /\ FaultIdle
  /\ output_log \in SeqsUpTo(Repos, MaxInput)
  /\ crawl_run = NoRun

\* the call, made once
SubmitTasks ==
  /\ crawl_run.runs = 0
  /\ StartRun

SpecSubmit == InitSubmit /\ [][SubmitTasks]_vars

\* the input repositories of the call that meet the star threshold and had no
\* record in the output files when the call began
Eligible(r) ==
  /\ r.stars >= crawl_run.star_threshold
  /\ r.url \notin crawl_run.crawled_urls

\* C18: the repositories a call of crawl_repositories submits are, in the
\* order of the input, exactly the input repositories with stars at least
\* the threshold and no record in the output files at the time of the call,
\* and the tasks of the run are these repositories.
C18_SubmitsExactlyEligible ==
  crawl_run.repositories # << >> =>
    /\ crawl_run.submitted = SelectSeq(crawl_run.repositories, Eligible)
    /\ crawl_run.tasks = [i \in 1..Len(crawl_run.submitted) |->
                            crawl_run.submitted[i].url]

\* a call with a threshold above zero submitted one repository and left out
\* one that meets the threshold and has a record in the output file
C18_SubmittedOneLeftOutCrawled ==
  /\ crawl_run.pc = "running"
  /\ crawl_run.star_threshold > 0
  /\ Len(crawl_run.submitted) = 1
  /\ \E j \in 1..Len(crawl_run.repositories) :
       /\ crawl_run.repositories[j].stars >= crawl_run.star_threshold
       /\ crawl_run.repositories[j].url \in crawl_run.crawled_urls

(***************************************************************************)
(* SpecPool: one call of crawl_repositories from the submission of the     *)
(* tasks to the return of the count, in the thread pool or the process     *)
(* pool, with no kill of the process.                                      *)
(***************************************************************************)
NextPool ==
  \/ SubmitTasks
  \/ CompleteThreadTask
  \/ CompleteWorkerTask
  \/ FinishRun

SpecPool == InitSubmit /\ [][NextPool]_vars

\* a task got its outcome and the run goes on with every other task
OneTaskLess ==
  /\ crawl_run'.pc = "running"
  /\ \E i \in 1..Len(crawl_run.tasks) :
       crawl_run'.tasks = RemoveAt(crawl_run.tasks, i)

\* C21: while a call of crawl_repositories runs, each step gives one task
\* its outcome and leaves every other submitted task to be processed,
\* whether that task failed, raised or succeeded; the success count grows
\* exactly when a record is appended to the output log; and the call returns
\* only when no task is left, with the success count as its value.  This
\* holds in the thread pool and in the worker processes' batches.
C21_FailureAbsorbed ==
  [][crawl_run.pc = "running" =>
       /\ crawl_run'.tasks # crawl_run.tasks =>
            /\ OneTaskLess
            /\ crawl_run'.successful_count - crawl_run.successful_count
                 = Len(output_log') - Len(output_log)
            /\ crawl_run'.successful_count + crawl_run'.failed
                 = crawl_run.successful_count + crawl_run.failed + 1
       /\ crawl_run'.pc = "idle" =>
            /\ crawl_run.tasks = << >>
            /\ crawl_run'.returned = crawl_run.successful_count]_vars

\* a call returned after one of its tasks ended without a record and a
\* sibling was written and counted
C21_SiblingWrittenAfterFailure ==
  /\ crawl_run.pc = "idle"
  /\ crawl_run.runs = 1
  /\ crawl_run.failed >= 1
  /\ crawl_run.returned >= 1
  /\ Len(output_log) >= crawl_run.returned

(***************************************************************************)
(* SpecQuota: _meets_minimum_pr_requirement on the repository a crawl      *)
(* returned.  required_threshold is a double: target_closed_prs * 0.9 is   *)
(* the exact product of the integer with the double nearest to 0.9,        *)
(* rounded to the nearest double, and the comparison of the integer count  *)
(* with it is exact.  The product is computed here on 16-bit limbs.        *)
(***************************************************************************)
LIMB == 65536

\* the double 0.9 is 0x1CCCCCCCCCCCCD * 2^-53: its significand, low limb first
NINE_TENTHS == <<52429, 52428, 52428, 28>>

\* the bits of the significand that follow the binary point, and the weight
\* of the first integer bit within limb 4 of a product
FRACTION_BITS == 53

RECURSIVE Pow2(_)
Pow2(n) == IF n = 0 THEN 1 ELSE 2 * Pow2(n - 1)

RECURSIVE PowerOfTwoBelow(_)
\* the largest power of two that is at most q, for q >= 1
PowerOfTwoBelow(q) == IF q < 2 THEN 1 ELSE 2 * PowerOfTwoBelow(q \div 2)

\* target * 0x1CCCCCCCCCCCCD as five limbs, low limb first
ExactProduct(target) ==
  LET c0 == target * NINE_TENTHS[1]
      c1 == target * NINE_TENTHS[2] + c0 \div LIMB
      c2 == target * NINE_TENTHS[3] + c1 \div LIMB
      c3 == target * NINE_TENTHS[4] + c2 \div LIMB
  IN <<c0 % LIMB, c1 % LIMB, c2 % LIMB, c3 % LIMB, c3 \div LIMB>>

\* target_closed_prs * 0.9 as a double, kept as far as a comparison with an
\* integer needs it: the double lies in [int, int + 1] and is int itself
\* exactly when is_int.  With x the exact product, q its integer part and
\* 2^e <= q < 2^(e+1), round-to-nearest-even gives q exactly when the
\* fraction of x is at most 2^(e-53).
TimesNineTenths(target) ==
  LET p == ExactProduct(target)
      split == Pow2(FRACTION_BITS - 48)
      q == p[5] * (LIMB \div split) + p[4] \div split
      high_zero == p[4] % split = 0 /\ p[3] = 0
      pow == PowerOfTwoBelow(q)
  IN [int |-> q,
      is_int |-> IF q = 0
                 THEN high_zero /\ p[2] = 0 /\ p[1] = 0
                 ELSE /\ high_zero
                      /\ p[2] <= pow \div LIMB
                      /\ p[2] * LIMB + p[1] <= pow]

\* count >= d for an integer count and a double d
IntGeDouble(count, d) == count > d.int \/ (count = d.int /\ d.is_int)

\* a count that leaves the merged PRs out, to compare closed_prs_scraped with
ClosedStateOnly(pull_requests) == pull_requests.closed

\* len([pr for pr in repository.pull_requests
\*      if pr.state in ['closed', 'merged']]),
\* the list being given as the number of PRs of each state
closed_prs_scraped(pull_requests) ==
  pull_requests.closed + pull_requests.merged

_meets_minimum_pr_requirement(min_prs_required, repository) ==
  LET target_closed_prs ==
        Min(min_prs_required, repository.closed_pull_requests)
      required_threshold == TimesNineTenths(target_closed_prs)
  IN IntGeDouble(closed_prs_scraped(repository.pull_requests),
                 required_threshold)

QuotaSettings == {MIN_PRS_REQUIRED, DOCUMENTED_QUOTA}

\* counts of closed PRs tried next to the small ones: around 90% and 100% of
\* the quotas and of 400
AvailableCounts ==
  (0..MaxAvailable) \cup {399, 400, 401, 499, 500, 501, 999, 1000, 1001, 1111}

ScrapedCounts ==
  (0..MaxScraped)
    \cup {349, 350, 359, 360, 361, 369, 370, 449, 450, 451, 899, 900, 901}

CrawledRepositories ==
  [closed_pull_requests : AvailableCounts,
   pull_requests : [closed : ScrapedCounts, merged : 0..MaxOtherState,
                    open : 0..MaxOtherState]]

InitQuota ==
  /\ StateIdle
  /\ CacheIdle
  /\ CrawlIdle
  /\ BreakerIdle
  /\ SingleIdle
  /\ LegacyIdle
  /\ FaultIdle
  /\ quota_case = NoQuotaCase
  /\ retry = NoRetry

outsideQuota == <<stateVars, apiVars, cacheVars, cacheLogVars, engineVars,
                  crawlVars, breakerVars, retry, singleVars, legacyVars, faultVars>>

\* _crawl_single_repository returned a repository
CrawlReturned ==
  /\ quota_case.pc = "idle"
  /\ \E min_prs_required \in QuotaSettings,
        repository \in CrawledRepositories :
       quota_case' = [pc |-> "crawled",
                      min_prs_required |-> min_prs_required,
                      repository |-> repository]
  /\ UNCHANGED outsideQuota

\* crawl_repositories asks whether the repository meets the quota
CheckQuota ==
  /\ quota_case.pc = "crawled"
  /\ quota_case' =
       [pc |-> "checked",
        min_prs_required |-> quota_case.min_prs_required,
        repository |-> quota_case.repository,
        meets_requirement |->
          _meets_minimum_pr_requirement(quota_case.min_prs_required,
                                        quota_case.repository)]
  /\ UNCHANGED outsideQuota

\* the loop of crawl_repositories goes on to the next completed task
NextCompleted ==
  /\ quota_case.pc = "checked"
  /\ quota_case' = NoQuotaCase
  /\ UNCHANGED outsideQuota

NextQuota == CrawlReturned \/ CheckQuota \/ NextCompleted

SpecQuota == InitQuota /\ [][NextQuota]_vars

(***************************************************************************)
(* Claims on SpecQuota.                                                    *)
(***************************************************************************)
ScrapedClosedCount ==
  quota_case.repository.pull_requests.closed
    + quota_case.repository.pull_requests.merged

\* C7: a repository meets the quota exactly when ten times the number of
\* its scraped PRs that are closed or merged is at least nine times the
\* smaller of the quota and the closed PRs it has; with quota 1000 and 400
\* closed PRs, 370 scraped are accepted and 350 are not.
C7_QuotaThreshold ==
  quota_case.pc = "checked" =>
    /\ quota_case.meets_requirement <=>
         (10 * ScrapedClosedCount
            >= 9 * Min(quota_case.min_prs_required,
                       quota_case.repository.closed_pull_requests))
    /\ (/\ quota_case.min_prs_required = 1000
        /\ quota_case.repository.closed_pull_requests = 400)
       => /\ ScrapedClosedCount = 370 => quota_case.meets_requirement
          /\ ScrapedClosedCount = 350 => ~quota_case.meets_requirement
          /\ ScrapedClosedCount = 360 => quota_case.meets_requirement
          /\ ScrapedClosedCount = 359 => ~quota_case.meets_requirement

\* C7 witness: quota 1000, 400 closed PRs, 370 scraped of which one is
\* merged: accepted
C7_Accepted370 ==
  /\ quota_case.pc = "checked"
  /\ quota_case.min_prs_required = 1000
  /\ quota_case.repository.closed_pull_requests = 400
  /\ quota_case.repository.pull_requests.closed = 369
  /\ quota_case.repository.pull_requests.merged = 1
  /\ quota_case.meets_requirement

(***************************************************************************)
(* SpecBreaker: the circuit breaker of FailedIssueCache under any sequence *)
(* of mark_failed, mark_success, should_attempt_repo and cleanup_expired,  *)
(* with the clock going forward in between.                                *)
(***************************************************************************)
BreakerRepos == {REPO}

\* d.get(k, default), d[k] = v and del d[k] on a dict
Get(d, k, default) == IF k \in DOMAIN d THEN d[k] ELSE default

Put(d, k, v) == [x \in DOMAIN d \cup {k} |-> IF x = k THEN v ELSE d[x]]

Del(d, k) == [x \in DOMAIN d \ {k} |-> d[x]]

\* the cache object: its three dicts and the file
ThisCache == [failed_issues |-> failed_issues,
              failure_counts |-> failure_counts,
              blocked_until |-> blocked_until,
              file |-> failed_issues_file]

\* _save_cache at time t: every issue of every repository with t as its
\* timestamp, and the two breaker dicts as they are (failed_repositories is
\* not modelled here)
_save_cache(c, t) ==
  [c EXCEPT !.file =
     [failed_issues |->
        [repo_url \in DOMAIN c.failed_issues |->
           [issue \in c.failed_issues[repo_url] |-> t]],
      failure_counts |-> c.failure_counts,
      blocked_until |-> c.blocked_until]]

mark_failed(c, repo_url, issue_number, t) ==
  LET issues == Get(c.failed_issues, repo_url, {}) \cup {issue_number}
      count == Get(c.failure_counts, repo_url, 0) + 1
      marked ==
        [c EXCEPT
           !.failed_issues = Put(@, repo_url, issues),
           !.failure_counts = Put(@, repo_url, count),
           !.blocked_until = IF count >= failure_threshold
                             THEN Put(@, repo_url, t + block_timeout)
                             ELSE @]
  IN IF Cardinality(issues) % SAVE_FAILED_EVERY = 0
     THEN _save_cache(marked, t)
     ELSE marked

\* a reset of the counter that leaves the block in place, to compare
\* mark_success with
ResetCountOnly(c, repo_url) ==
  [c EXCEPT
     !.failure_counts = IF repo_url \in DOMAIN @ THEN Put(@, repo_url, 0)
                        ELSE @]

mark_success(c, repo_url) ==
  [c EXCEPT
     !.failure_counts = IF repo_url \in DOMAIN @ THEN Put(@, repo_url, 0)
                        ELSE @,
     !.blocked_until = IF repo_url \in DOMAIN @ THEN Del(@, repo_url) ELSE @]

\* a comparison that holds the block at its last instant too, to compare
\* StillBlocked with
StillBlockedInclusive(t, until) == t <= until

\* time.time() < self.blocked_until[repo_url]
StillBlocked(t, until) == t < until

\* the cache after the call and the value returned
should_attempt_repo(c, repo_url, t) ==
  IF repo_url \in DOMAIN c.blocked_until
  THEN IF StillBlocked(t, c.blocked_until[repo_url])
       THEN [cache |-> c, result |-> FALSE]
       ELSE [cache |-> [c EXCEPT !.blocked_until = Del(@, repo_url),
                                 !.failure_counts = Put(@, repo_url, 0)],
             result |-> TRUE]
  ELSE [cache |-> c, result |-> TRUE]

RECURSIVE CleanBlocks(_, _, _)
\* the second loop of cleanup_expired, over the repositories in todo
CleanBlocks(c, todo, t) ==
  IF todo = {} THEN c
  ELSE LET repo_url == CHOOSE r \in todo : TRUE
           cleaned ==
             IF t >= c.blocked_until[repo_url]
             THEN [c EXCEPT !.blocked_until = Del(@, repo_url),
                            !.failure_counts = Put(@, repo_url, 0)]
             ELSE c
       IN CleanBlocks(cleaned, todo \ {repo_url}, t)

cleanup_expired(c, t) == CleanBlocks(c, DOMAIN c.blocked_until, t)

InitBreaker ==
  /\ StateIdle
  /\ CacheIdle
  /\ CrawlIdle
  /\ QuotaIdle
  /\ BreakerIdle
  /\ SingleIdle
  /\ LegacyIdle
  /\ FaultIdle

outsideBreaker == <<stateVars, apiVars, cacheVars, cacheLogVars, engineVars,
                    crawlVars, quotaVars, singleVars, legacyVars, faultVars>>

SetCache(c) ==
  /\ failed_issues' = c.failed_issues
  /\ failure_counts' = c.failure_counts
  /\ blocked_until' = c.blocked_until
  /\ failed_issues_file' = c.file

\* the streak is over once its block is found expired
BlockServed(t) ==
  /\ breaker_log.streak >= failure_threshold
  /\ t >= breaker_log.last_failed_at + block_timeout

\* issue numbers fail in order, and one that failed may fail again
IssueChoices(repo_url) ==
  {n \in 1..MaxIssue :
     n <= Cardinality(Get(failed_issues, repo_url, {})) + 1}

MarkFailed ==
  /\ breaker_log.marks < MaxMarks
  /\ \E repo_url \in BreakerRepos :
       \E issue_number \in IssueChoices(repo_url) :
         SetCache(mark_failed(ThisCache, repo_url, issue_number, now))
  /\ breaker_log' =
       [breaker_log EXCEPT
          !.streak = @ + 1,
          !.marks = @ + 1,
          !.last_failed_at = now,
          !.reached_at = IF breaker_log.streak + 1 = failure_threshold
                         THEN now ELSE @,
          !.last = [op |-> "mark_failed"]]
  /\ UNCHANGED <<now, outsideBreaker>>

MarkSuccess ==
  /\ \E repo_url \in BreakerRepos :
       SetCache(mark_success(ThisCache, repo_url))
  /\ breaker_log' = [breaker_log EXCEPT !.streak = 0,
                                        !.last = [op |-> "mark_success"]]
  /\ UNCHANGED <<now, outsideBreaker>>

ShouldAttemptRepo ==
  /\ \E repo_url \in BreakerRepos :
       LET r == should_attempt_repo(ThisCache, repo_url, now)
       IN /\ SetCache(r.cache)
          /\ breaker_log' =
               [breaker_log EXCEPT
                  !.streak = IF BlockServed(now) THEN 0 ELSE @,
                  !.last = [op |-> "should_attempt_repo",
                            at |-> now,
                            result |-> r.result,
                            streak |-> breaker_log.streak,
                            reached_at |-> breaker_log.reached_at,
                            last_failed_at |-> breaker_log.last_failed_at,
                            blocked_after |->
                              repo_url \in DOMAIN r.cache.blocked_until,
                            count_after |->
                              Get(r.cache.failure_counts, repo_url, 0)]]
  /\ UNCHANGED <<now, outsideBreaker>>

CleanupExpired ==
  /\ SetCache(cleanup_expired(ThisCache, now))
  /\ breaker_log' =
       [breaker_log EXCEPT !.streak = IF BlockServed(now) THEN 0 ELSE @,
                           !.last = [op |-> "cleanup_expired"]]
  /\ UNCHANGED <<now, outsideBreaker>>

\* the clock goes on: by a second, to the last second of a block that was
\* just set, or to its end
TickSteps == {1, block_timeout - 1, block_timeout}

Tick ==
  /\ breaker_log.ticks < MaxTicks
  /\ \E d \in TickSteps : now' = now + d
  /\ breaker_log' = [breaker_log EXCEPT !.ticks = @ + 1]
  /\ UNCHANGED <<failed_issues, failure_counts, blocked_until,
                 failed_issues_file, outsideBreaker>>

NextBreaker ==
  \/ MarkFailed
  \/ MarkSuccess
  \/ ShouldAttemptRepo
  \/ CleanupExpired
  \/ Tick

SpecBreaker == InitBreaker /\ [][NextBreaker]_vars

(***************************************************************************)
(* Claims on SpecBreaker.                                                  *)
(***************************************************************************)
\* the last call was should_attempt_repo, after failure_threshold or more
\* failures in a row
AttemptAfterStreak ==
  /\ breaker_log.last.op = "should_attempt_repo"
  /\ breaker_log.last.streak >= failure_threshold

\* what is owed by a call at a time the block is over
AnswersAndResets ==
  /\ breaker_log.last.result
  /\ ~breaker_log.last.blocked_after
  /\ breaker_log.last.count_after = 0

\* C8: after failure_threshold failures in a row, should_attempt_repo
\* returns false at every time before block_timeout has elapsed since the
\* threshold was reached, and the first call after that returns true,
\* removes the block and resets the failure counter to 0.
C8_BlockedForTimeoutAfterThreshold ==
  AttemptAfterStreak =>
    IF breaker_log.last.at < breaker_log.last.reached_at + block_timeout
    THEN ~breaker_log.last.result
    ELSE AnswersAndResets

\* C8, amended: after failure_threshold or more failures in a row, with no
\* mark_success and no expired block in between, should_attempt_repo
\* returns false at every time earlier than block_timeout after the most
\* recent of these failures, and the first call at or after that time
\* returns true, removes the block and resets the failure counter to 0.
C8_BlockedForTimeoutAfterLastFailure ==
  AttemptAfterStreak =>
    IF breaker_log.last.at < breaker_log.last.last_failed_at + block_timeout
    THEN ~breaker_log.last.result
    ELSE AnswersAndResets

\* C8 witness: a block that a further failure set again is over, and the
\* call returned true
C8_RearmedBlockOver ==
  /\ AttemptAfterStreak
  /\ breaker_log.last.last_failed_at > breaker_log.last.reached_at
  /\ breaker_log.last.at >= breaker_log.last.last_failed_at + block_timeout
  /\ breaker_log.last.result

\* C39: in every state reached from an empty cache by mark_failed,
\* mark_success, should_attempt_repo and cleanup_expired, a repository has
\* a blocked_until entry only if its failure count is at least
\* failure_threshold, and a repository whose count is 0 has no block.
C39_BlockOnlyAtThreshold ==
  \A repo_url \in BreakerRepos :
    /\ repo_url \in DOMAIN blocked_until =>
         Get(failure_counts, repo_url, 0) >= failure_threshold
    /\ (repo_url \in DOMAIN failure_counts /\ failure_counts[repo_url] = 0) =>
         repo_url \notin DOMAIN blocked_until

\* C39 witness: a repository that was blocked at the threshold had its
\* count reset to 0 by mark_success, and has no block
C39_ResetAfterBlock ==
  /\ breaker_log.last.op = "mark_success"
  /\ breaker_log.marks >= failure_threshold
  /\ breaker_log.reached_at > 0
  /\ REPO \in DOMAIN failure_counts
  /\ failure_counts[REPO] = 0
  /\ REPO \notin DOMAIN blocked_until

(***************************************************************************)
(* SpecRetry: crawl_repositories deciding on one repository whose first    *)
(* pass returned, with _continue_scraping_until_requirement_met when the   *)
(* quota is not met.  Every call of scrape_all_prs_aggressively returns    *)
(* load_cached_prs, the lines of the PR cache file, which a pass only      *)
(* appends to.                                                             *)
(***************************************************************************)
\* the PR page of number n says closed or merged
PrStateOf(n) == IF n % 2 = 0 THEN "merged" ELSE "closed"

PullRequestInfo(n) == [number |-> n, state |-> PrStateOf(n)]

\* the number of PRs of each state in a list of PRs
CountsOf(prs) ==
  [closed |-> Cardinality({i \in 1..Len(prs) : prs[i].state = "closed"}),
   merged |-> Cardinality({i \in 1..Len(prs) : prs[i].state = "merged"}),
   open   |-> Cardinality({i \in 1..Len(prs) : prs[i].state = "open"})]

\* {pr.number for pr in prs}
NumbersOf(prs) == {prs[i].number : i \in 1..Len(prs)}

\* the PR numbers of a list, in its order
NumberList(prs) == [i \in 1..Len(prs) |-> prs[i].number]

\* the CrawledRepository as the quota test reads it
RepositoryOf(closed_pull_requests, prs) ==
  [closed_pull_requests |-> closed_pull_requests, pull_requests |-> CountsOf(prs)]

\* what the first pass can return: nothing, PRs 1..k, or PRs 1..k with PR 1
\* a second time (scraped through two of its URLs)
FirstPassResults ==
  {[i \in 1..k |-> PullRequestInfo(i)] : k \in 0..MaxFirstPass}
    \cup {<<PullRequestInfo(1)>> \o [i \in 1..k |-> PullRequestInfo(i)] :
            k \in 1..MaxFirstPass}

\* closed PRs a repository in the retry loop has: at least one
RetryAvailableCounts == {1, 2, 3, MaxAvailable}

\* a PR number that is not in the cache file
NextPr(cache) == Max(0, CHOOSE n \in NumbersOf(cache) \cup {0} :
                          \A k \in NumbersOf(cache) : k <= n) + 1

\* what a pass can leave in the cache file: nothing more, a new PR, a new PR
\* twice, or a cached PR once more
PassOutcomes(cache) ==
  {cache,
   cache \o <<PullRequestInfo(NextPr(cache))>>,
   cache \o <<PullRequestInfo(NextPr(cache)), PullRequestInfo(NextPr(cache))>>}
    \cup (IF cache = << >> THEN {} ELSE {cache \o <<cache[1]>>})

\* what a call of scrape_all_prs_aggressively can give: the cache file as the
\* pass left it, or [] when an exception was caught inside it
AttemptResults(cache) ==
  {[cache |-> after, additional_prs |-> after] : after \in PassOutcomes(cache)}
    \cup {[cache |-> cache, additional_prs |-> << >>]}

\* prs_needed = max(0, int(required_threshold - closed_prs_scraped)); the
\* difference of the double and the count is exact
PrsNeeded(target_closed_prs, scraped) ==
  Max(0, TimesNineTenths(target_closed_prs).int - scraped)

\* max_closed_prs of the attempt: int(base_limit * (1 + retry_attempt * 0.5)),
\* at most MAX_CLOSED_PRS_TO_CRAWL
AttemptLimit(prs_needed, retry_attempt) ==
  LET base_limit == Max(prs_needed * 2, MIN_ATTEMPT_LIMIT)
      additional_limit == (base_limit * (2 + retry_attempt)) \div 2
  IN  Min(additional_limit,
          IF CRAWL_CLOSED_PRS THEN MAX_CLOSED_PRS_TO_CRAWL ELSE 0)

\* new_prs: the PRs of additional_prs whose number working_repository lacks
NewPrs(additional_prs, working) ==
  LET Fresh(pr) == pr.number \notin NumbersOf(working)
  IN  SelectSeq(additional_prs, Fresh)

\* a loop head that lets one more turn through, to compare LoopGoesOn with
LoopGoesOnOnceMore(retry_attempt) == retry_attempt <= max_retry_attempts

\* while retry_attempt < max_retry_attempts
LoopGoesOn(retry_attempt) == retry_attempt < max_retry_attempts

\* a test that stops on any attempt without new PRs, to compare
\* StopsAsExhausted with
StopsOnAnyEmptyAttempt(new_prs, retry_attempt) == Len(new_prs) = 0

\* if len(new_prs) == 0: if retry_attempt >= 2: break
StopsAsExhausted(new_prs, retry_attempt) ==
  Len(new_prs) = 0 /\ retry_attempt >= 2

InitRetry ==
  /\ StateIdle
  /\ CacheIdle
  /\ CrawlIdle
  /\ BreakerIdle
  /\ SingleIdle
  /\ LegacyIdle
  /\ FaultIdle
  /\ quota_case = NoQuotaCase
  /\ retry = NoRetry

outsideRetry == <<stateVars, apiVars, cacheVars, cacheLogVars, engineVars,
                  crawl_run, quota_case, breakerVars, singleVars, legacyVars, faultVars>>

\* _crawl_single_repository returned a repository; crawl_repositories asks
\* whether it meets the quota
FirstPassReturned ==
  /\ retry.pc = "idle"
  /\ \E closed_pull_requests \in RetryAvailableCounts,
        pull_requests \in FirstPassResults :
       retry' = [pc |-> "first_pass",
                 closed_pull_requests |-> closed_pull_requests,
                 cache |-> pull_requests,
                 working |-> pull_requests,
                 gathered |-> NumbersOf(pull_requests),
                 retry_attempt |-> 0,
                 scrapes |-> 0,
                 yields |-> << >>,
                 limits |-> << >>,
                 stop |-> "none",
                 write_success |-> FALSE,
                 looped |-> FALSE,
                 meets |-> _meets_minimum_pr_requirement(MIN_PRS_REQUIRED,
                              RepositoryOf(closed_pull_requests, pull_requests))]
  /\ UNCHANGED <<output_log, outsideRetry>>

\* the quota is met by the first pass: the record is appended
AcceptFirstPass ==
  /\ retry.pc = "first_pass"
  /\ retry.meets
  /\ \E write_success \in BOOLEAN :
       /\ output_log' = append_crawled_repository(output_log, REPO, write_success)
       /\ retry' = [retry EXCEPT !.pc = "appended",
                                  !.write_success = write_success]
  /\ UNCHANGED outsideRetry

\* the quota is not met: _continue_scraping_until_requirement_met is entered
EnterRetryLoop ==
  /\ retry.pc = "first_pass"
  /\ ~retry.meets
  /\ retry' = [retry EXCEPT !.pc = "loop", !.looped = TRUE]
  /\ UNCHANGED <<output_log, outsideRetry>>

\* one turn of the while loop
RetryAttempt ==
  /\ retry.pc = "loop"
  /\ LoopGoesOn(retry.retry_attempt)
  /\ LET retry_attempt == retry.retry_attempt + 1
         closed_prs_scraped_now ==
           closed_prs_scraped(CountsOf(retry.working))
         target_closed_prs == Min(MIN_PRS_REQUIRED, retry.closed_pull_requests)
         prs_needed == PrsNeeded(target_closed_prs, closed_prs_scraped_now)
         r0 == [retry EXCEPT !.retry_attempt = retry_attempt]
     IN
     IF _meets_minimum_pr_requirement(MIN_PRS_REQUIRED,
          RepositoryOf(retry.closed_pull_requests, retry.working))
     THEN retry' = [r0 EXCEPT !.pc = "returned", !.meets = TRUE, !.stop = "met"]
     ELSE IF prs_needed = 0
     THEN retry' = [r0 EXCEPT !.pc = "ended", !.stop = "need_zero"]
     ELSE
       \E result \in AttemptResults(retry.cache) :
         LET additional_prs == result.additional_prs
             new_prs == NewPrs(additional_prs, retry.working)
             r1 == [r0 EXCEPT
                      !.cache = result.cache,
                      !.scrapes = @ + 1,
                      !.gathered = @ \cup NumbersOf(additional_prs),
                      !.yields = Append(@, Len(new_prs)),
                      !.limits = Append(@, AttemptLimit(prs_needed, retry_attempt))]
         IN  IF StopsAsExhausted(new_prs, retry_attempt)
             THEN retry' = [r1 EXCEPT !.pc = "ended", !.stop = "exhausted"]
             ELSE retry' = [r1 EXCEPT !.working = @ \o new_prs]
  /\ UNCHANGED <<output_log, outsideRetry>>

\* the while condition fails: the ceiling is reached
ReachCeiling ==
  /\ retry.pc = "loop"
  /\ ~LoopGoesOn(retry.retry_attempt)
  /\ retry' = [retry EXCEPT !.pc = "ended", !.stop = "ceiling"]
  /\ UNCHANGED <<output_log, outsideRetry>>

\* the final check after the loop: success is True either way
FinalCheck ==
  /\ retry.pc = "ended"
  /\ retry' = [retry EXCEPT
                 !.pc = "returned",
                 !.meets = _meets_minimum_pr_requirement(MIN_PRS_REQUIRED,
                             RepositoryOf(retry.closed_pull_requests, retry.working))]
  /\ UNCHANGED <<output_log, outsideRetry>>

\* crawl_repositories appends the repository the loop returned
AppendAfterRetry ==
  /\ retry.pc = "returned"
  /\ \E write_success \in BOOLEAN :
       /\ output_log' = append_crawled_repository(output_log, REPO, write_success)
       /\ retry' = [retry EXCEPT !.pc = "appended",
                                  !.write_success = write_success]
  /\ UNCHANGED outsideRetry

NextRetry ==
  \/ FirstPassReturned
  \/ AcceptFirstPass
  \/ EnterRetryLoop
  \/ RetryAttempt
  \/ ReachCeiling
  \/ FinalCheck
  \/ AppendAfterRetry

SpecRetry == InitRetry /\ [][NextRetry]_vars

(***************************************************************************)
(* Claims on SpecRetry.                                                    *)
(***************************************************************************)
InRetryLoop == retry.pc # "idle" /\ retry.looped

\* C14: the retry loop makes at most max_retry_attempts turns and at most
\* that many re-scrapes of the repository, and at the ceiling it is left.
C14_AtMostFiveAttempts ==
  InRetryLoop =>
    /\ retry.retry_attempt <= 5
    /\ retry.scrapes <= retry.retry_attempt
    /\ Len(retry.yields) = retry.scrapes

\* the loop was left at the ceiling, after five re-scrapes
C14_CeilingReached ==
  /\ retry.pc = "ended"
  /\ retry.stop = "ceiling"
  /\ retry.scrapes = 5

\* C15 as stated: the loop is left as exhausted only when the last two
\* attempts each gave no new PR.
C15_StopsAfterTwoEmptyAttempts ==
  (InRetryLoop /\ retry.stop = "exhausted") =>
    /\ Len(retry.yields) >= 2
    /\ retry.yields[Len(retry.yields)] = 0
    /\ retry.yields[Len(retry.yields) - 1] = 0

\* C15: the loop is left as exhausted exactly by an attempt that is the
\* second or a later one and gave no new PR, whatever the attempt before it
\* gave; an attempt without new PRs is followed by another one only when it
\* is the first.
C15_StopsOnEmptyAttemptFromSecond ==
  InRetryLoop =>
    /\ retry.stop = "exhausted" =>
         /\ retry.retry_attempt >= 2
         /\ retry.yields[Len(retry.yields)] = 0
    /\ \A i \in 1..Len(retry.yields) :
         (retry.yields[i] = 0 /\ i >= 2) =>
           (i = Len(retry.yields) /\ retry.stop = "exhausted")

\* the second attempt gave no new PR after a first one that gave some, and
\* the loop was left
C15_StoppedAfterOneEmptyAttempt ==
  /\ retry.pc = "ended"
  /\ retry.stop = "exhausted"
  /\ retry.yields = <<1, 0>>

\* C16: a repository that does not meet the quota when the loop has ended is
\* appended to the output with every PR number the first pass and the
\* attempts returned, each once.
C16_BestEffortRecord ==
  (/\ retry.pc = "appended"
   /\ retry.stop \in {"exhausted", "ceiling"}
   /\ ~retry.meets
   /\ retry.write_success) =>
    /\ output_log = <<REPO>>
    /\ retry.gathered \subseteq NumbersOf(retry.working)
    /\ NoDup(NumberList(retry.working))

\* C34: no record without any scraped PR is appended to the output: a
\* repository whose first pass and attempts gave nothing is not written.
C34_NoEmptyRecordAppended ==
  (retry.pc = "appended" /\ retry.write_success) =>
    /\ output_log = <<REPO>>
    /\ Len(retry.working) > 0

\* C35: at every turn of the retry loop at which the quota is not met,
\* prs_needed is at least 1, so the loop is never left through the branch
\* of prs_needed == 0.
C35_NeededAtLeastOne ==
  InRetryLoop => retry.stop # "need_zero"

(***************************************************************************)
(* SpecSingle: calls of _crawl_single_repository on one repository by one  *)
(* crawler after the other, each followed by what crawl_repositories does  *)
(* with its result, with the clock going forward between any two steps and *)
(* new crawlers loading the failure cache from its file.                   *)
(***************************************************************************)
\* a test that keeps a record one second longer, to compare
\* is_repository_failed with
IsRepositoryFailedLate(failed, repo_url, t) ==
  IF repo_url \notin DOMAIN failed
  THEN [failed_repositories |-> failed, result |-> FALSE]
  ELSE IF t - failed[repo_url].timestamp > max_cache_age
       THEN [failed_repositories |-> Del(failed, repo_url), result |-> FALSE]
       ELSE [failed_repositories |-> failed, result |-> TRUE]

\* is_repository_failed at time t: the answer, and the dict after it
is_repository_failed(failed, repo_url, t) ==
  IF repo_url \notin DOMAIN failed
  THEN [failed_repositories |-> failed, result |-> FALSE]
  ELSE IF t - failed[repo_url].timestamp >= max_cache_age
       THEN [failed_repositories |-> Del(failed, repo_url), result |-> FALSE]
       ELSE [failed_repositories |-> failed, result |-> TRUE]

\* get_repository_failure_reason at time t
get_repository_failure_reason(failed, repo_url, t) ==
  IF repo_url \in DOMAIN failed
  THEN IF t - failed[repo_url].timestamp < max_cache_age
       THEN [failed_repositories |-> failed, result |-> failed[repo_url].reason]
       ELSE [failed_repositories |-> Del(failed, repo_url), result |-> ""]
  ELSE [failed_repositories |-> failed, result |-> ""]

\* mark_repository_failed at time t: the record is set and the cache saved
mark_repository_failed(failed, repo_url, reason, t) ==
  LET marked == Put(failed, repo_url, [reason |-> reason, timestamp |-> t])
  IN  [failed_repositories |-> marked, file |-> marked]

remove_repository_failure(failed, repo_url) ==
  IF repo_url \in DOMAIN failed THEN Del(failed, repo_url) ELSE failed

\* _load_cache at time t: the records of the file that have not expired
LoadFailedRepositories(file, t) ==
  [r \in {x \in DOMAIN file : t - file[x].timestamp < max_cache_age} |-> file[r]]

\* stats.pr_counts_available: any([total, open, closed])
PrCountsAvailable(open_pull_requests, closed_pull_requests) ==
  open_pull_requests + closed_pull_requests > 0

NoStats == [scraped |-> FALSE]

\* what scrape_repository_stats can return: None, or the counts it parsed
\* (all of them 0 when it could parse none)
StatsResults ==
  {NoStats} \cup
  {[scraped |-> TRUE,
    pr_counts_available |-> PrCountsAvailable(o, c),
    open_pull_requests |-> o,
    closed_pull_requests |-> c] : o \in 0..MaxCounted, c \in 0..MaxCounted}

\* a test that skips no repository, to compare ConfirmedNoClosedPrs with
SkipsNothing(stats) == FALSE

\* CRAWL_CLOSED_PRS and stats.pr_counts_available
\*   and stats.closed_pull_requests == 0
ConfirmedNoClosedPrs(stats) ==
  CRAWL_CLOSED_PRS /\ stats.pr_counts_available /\ stats.closed_pull_requests = 0

\* f"Cached failure: {failure_reason}"
CachedFailure(failure_reason) == <<"Cached failure: ", failure_reason>>

NoResult == [success |-> FALSE, error |-> "", pull_requests |-> << >>]

InitSingle ==
  /\ StateIdle
  /\ CacheIdle
  /\ CrawlIdle
  /\ QuotaIdle
  /\ BreakerIdle
  /\ SingleIdle
  /\ LegacyIdle
  /\ FaultIdle

outsideSingle == <<stateVars, apiVars, cacheVars, cacheLogVars, engineVars,
                   crawl_run, quotaVars, failure_counts, blocked_until,
                   failed_issues, failed_issues_file, breaker_log,
                   legacyVars, faultVars>>

AttemptsMade == IF task.pc = "idle" THEN 0 ELSE task.attempts

TicksMade == IF task.pc = "idle" THEN 0 ELSE task.ticks

\* what the record of the repository is at time t: "absent", "valid" or
\* "expired"
RecordAt(failed, repo_url, t) ==
  IF repo_url \notin DOMAIN failed THEN "absent"
  ELSE IF t < failed[repo_url].timestamp + max_cache_age THEN "valid"
  ELSE "expired"

\* a task of crawl_repositories calls _crawl_single_repository
StartAttempt ==
  /\ task.pc \in {"idle", "handled"}
  /\ AttemptsMade < MaxAttempts
  /\ task' = [pc |-> "check",
              attempts |-> AttemptsMade + 1,
              ticks |-> TicksMade,
              requests |-> {},
              record_at_check |-> "none",
              record_at_reason |-> "none",
              reason_at_check |-> "",
              stats |-> NoStats,
              result |-> NoResult,
              appended |-> FALSE,
              looped |-> FALSE]
  /\ UNCHANGED <<failed_repositories, failed_repositories_file, now,
                 output_log, outsideSingle>>

\* if self.failed_cache.is_repository_failed(repo.url)
CheckCachedFailure ==
  /\ task.pc = "check"
  /\ LET r == is_repository_failed(failed_repositories, REPO, now)
     IN  /\ failed_repositories' = r.failed_repositories
         /\ task' = [task EXCEPT
                       !.pc = IF r.result THEN "cached" ELSE "stats",
                       !.record_at_check = RecordAt(failed_repositories, REPO, now),
                       !.reason_at_check =
                          IF REPO \in DOMAIN failed_repositories
                          THEN failed_repositories[REPO].reason ELSE ""]
  /\ UNCHANGED <<failed_repositories_file, now, output_log, outsideSingle>>

\* the reason is read and the failure returned
ReturnCachedFailure ==
  /\ task.pc = "cached"
  /\ LET r == get_repository_failure_reason(failed_repositories, REPO, now)
     IN  /\ failed_repositories' = r.failed_repositories
         /\ task' = [task EXCEPT
                       !.pc = "returned",
                       !.record_at_reason = RecordAt(failed_repositories, REPO, now),
                       !.result = [NoResult EXCEPT !.error = CachedFailure(r.result)]]
  /\ UNCHANGED <<failed_repositories_file, now, output_log, outsideSingle>>

\* steps 1 and 2: the statistics are scraped and the PR counts looked at
ScrapeStats ==
  /\ task.pc = "stats"
  /\ \E stats \in StatsResults :
       LET error_msg ==
             IF ~stats.scraped THEN "Stats scraping failed"
             ELSE IF CRAWL_CLOSED_PRS /\ ~stats.pr_counts_available
                  THEN "Failed to fetch PR counts"
             ELSE IF ConfirmedNoClosedPrs(stats) THEN "No closed PRs available"
             ELSE ""
           m == mark_repository_failed(failed_repositories, REPO, error_msg, now)
       IN  IF error_msg # ""
           THEN /\ failed_repositories' = m.failed_repositories
                /\ failed_repositories_file' = m.file
                /\ task' = [task EXCEPT
                              !.pc = "returned",
                              !.requests = @ \cup {"stats"},
                              !.stats = stats,
                              !.result = [NoResult EXCEPT !.error = error_msg]]
           ELSE /\ UNCHANGED <<failed_repositories, failed_repositories_file>>
                /\ task' = [task EXCEPT
                              !.pc = "scrape",
                              !.requests = @ \cup {"stats"},
                              !.stats = stats]
  /\ UNCHANGED <<now, output_log, outsideSingle>>

\* steps 4 to 6: the PRs are discovered and scraped, and the repository
\* returned
ScrapePullRequests ==
  /\ task.pc = "scrape"
  /\ \E pull_requests \in FirstPassResults :
       task' = [task EXCEPT
                  !.pc = "returned",
                  !.requests = @ \cup {"discovery", "scraping"},
                  !.result = [success |-> TRUE, error |-> "",
                              pull_requests |-> pull_requests]]
  /\ failed_repositories' = remove_repository_failure(failed_repositories, REPO)
  /\ UNCHANGED <<failed_repositories_file, now, output_log, outsideSingle>>

\* crawl_repositories takes the result of the task: a repository that meets
\* the quota is appended, one that does not goes through the retry loop and
\* is appended with what the loop returned
HandleResult ==
  /\ task.pc = "returned"
  /\ IF task.result.success
     THEN \E write_success \in BOOLEAN :
            /\ output_log' = append_crawled_repository(output_log, REPO, write_success)
            /\ task' = [task EXCEPT
                          !.pc = "handled",
                          !.appended = write_success,
                          !.looped =
                             ~_meets_minimum_pr_requirement(MIN_PRS_REQUIRED,
                                RepositoryOf(task.stats.closed_pull_requests,
                                             task.result.pull_requests))]
     ELSE /\ output_log' = output_log
          /\ task' = [task EXCEPT !.pc = "handled"]
  /\ UNCHANGED <<failed_repositories, failed_repositories_file, now, outsideSingle>>

\* a new process: its crawler loads the failure cache from the file
NewCrawler ==
  /\ task.pc \in {"idle", "handled"}
  /\ failed_repositories' = LoadFailedRepositories(failed_repositories_file, now)
  /\ failed_repositories' # failed_repositories
  /\ UNCHANGED <<task, failed_repositories_file, now, output_log, outsideSingle>>

RetentionSteps == {1, max_cache_age - 1, max_cache_age}

\* time goes by, between any two steps
TimePasses ==
  /\ task.pc # "idle"
  /\ task.ticks < MaxTicks
  /\ \E step \in RetentionSteps : now' = now + step
  /\ task' = [task EXCEPT !.ticks = @ + 1]
  /\ UNCHANGED <<failed_repositories, failed_repositories_file, output_log,
                 outsideSingle>>

NextSingle ==
  \/ StartAttempt
  \/ CheckCachedFailure
  \/ ReturnCachedFailure
  \/ ScrapeStats
  \/ ScrapePullRequests
  \/ HandleResult
  \/ NewCrawler
  \/ TimePasses

SpecSingle == InitSingle /\ [][NextSingle]_vars

(***************************************************************************)
(* Claims on SpecSingle.                                                   *)
(***************************************************************************)
PrRequests == {"discovery", "scraping"}

\* C17: a call whose statistics give available PR counts with no closed PR
\* returns a failure without any discovery or scraping request, and
\* crawl_repositories neither enters the retry loop for it nor appends it.
C17_NoClosedPrsSkipped ==
  (/\ task.pc \in {"returned", "handled"}
   /\ task.stats.scraped
   /\ task.stats.pr_counts_available
   /\ task.stats.closed_pull_requests = 0) =>
    /\ ~task.result.success
    /\ task.requests \cap PrRequests = {}
    /\ ~task.appended
    /\ ~task.looped

\* the statistics gave open PRs and no closed one, and the result was handled
C17_SkippedWithOpenPrsOnly ==
  /\ task.pc = "handled"
  /\ task.stats.scraped
  /\ task.stats.pr_counts_available
  /\ task.stats.closed_pull_requests = 0
  /\ task.result.error = "No closed PRs available"
  /\ output_log = << >>

Days(max_age_days) == max_age_days * 86400

\* a test that looks for an entry only, to compare is_repository_crawled with
HasCheckpointEntry(crawled_repos, repo_url, max_age_days, t) ==
  repo_url \in DOMAIN crawled_repos

\* is_repository_crawled at time t
is_repository_crawled(crawled_repos, repo_url, max_age_days, t) ==
  IF repo_url \notin DOMAIN crawled_repos THEN FALSE
  ELSE IF ~crawled_repos[repo_url].crawl_success THEN FALSE
  ELSE LET crawl_time == crawled_repos[repo_url].crawl_timestamp
           age_limit == t - Days(max_age_days)
       IN IF crawl_time < age_limit THEN FALSE ELSE TRUE

\* get_crawled_repositories_from_output_files: the url of every record of
\* every *.jsonl file of the output directory
get_crawled_repositories_from_output_files(log) == Range(log)

RECURSIVE FilterLoop(_, _, _, _, _)
\* the loop of filter_uncrawled_repositories over the repositories
FilterLoop(repositories, current_file_crawled, output_crawled, crawled_repos, t) ==
  IF repositories = << >> THEN << >>
  ELSE LET repo == Head(repositories)
           all_output_crawled == output_crawled \cup current_file_crawled
           rest == FilterLoop(Tail(repositories), current_file_crawled,
                              output_crawled, crawled_repos, t)
       IN IF repo \in current_file_crawled THEN rest
          ELSE IF repo \in output_crawled THEN rest
          ELSE IF /\ repo \notin all_output_crawled
                  /\ is_repository_crawled(crawled_repos, repo,
                                           MAX_CHECKPOINT_AGE_DAYS, t)
               THEN rest
          ELSE <<repo>> \o rest

\* filter_uncrawled_repositories, the current output file being a file of
\* the output directory
filter_uncrawled_repositories(repositories, log, crawled_repos, t) ==
  FilterLoop(repositories, get_existing_repository_urls(log),
             get_crawled_repositories_from_output_files(log), crawled_repos, t)

\* CheckpointManager.mark_repository_crawled with the record of a crawl made
\* at time t
mark_repository_crawled(crawled_repos, repo_url, t) ==
  Put(crawled_repos, repo_url, [crawl_timestamp |-> t, crawl_success |-> TRUE])

\* CheckpointManager.mark_repository_failed at time t
mark_failed_in_checkpoint(crawled_repos, repo_url, t) ==
  Put(crawled_repos, repo_url, [crawl_timestamp |-> t, crawl_success |-> FALSE])

\* the run without the record of what the call was given
AfterFilter(run) ==
  [run EXCEPT !.repositories = << >>, !.output_crawled = {},
              !.entries = EmptyDict, !.at = 0, !.uncrawled = << >>]

InitLegacy ==
  /\ StateIdle
  /\ CacheIdle
  /\ EngineIdle
  /\ RestIdle

outsideLegacy == <<stateVars, apiVars, cacheVars, cacheLogVars, engineVars,
                   crawl_run, quotaVars, failure_counts, blocked_until,
                   failed_issues, failed_issues_file, breaker_log, singleVars,
                   faultVars>>

\* crawl_repositories up to the submission of the tasks, the input being the
\* repositories that met the star threshold
StartLegacyRun ==
  /\ legacy_run.pc = "idle"
  /\ legacy_run.calls < MaxLegacyRuns
  /\ \E repositories \in SeqsUpTo(Repos, MaxInput) :
       LET uncrawled == filter_uncrawled_repositories(repositories, output_log,
                                                      _crawled_repos, now)
       IN legacy_run' =
            [legacy_run EXCEPT
               !.pc = IF uncrawled = << >> THEN "idle" ELSE "running",
               !.tasks = uncrawled,
               !.calls = @ + 1,
               !.repositories = repositories,
               !.output_crawled = {output_log[i] : i \in 1..Len(output_log)},
               !.entries = _crawled_repos,
               !.at = now,
               !.uncrawled = uncrawled]
  /\ UNCHANGED <<_crawled_repos, output_log, now, outsideLegacy>>

\* one future completes: the record is appended and the repository marked
\* crawled, or the repository is marked failed, or, when the PR requirement
\* was not met after the additional scraping, nothing is recorded
CompleteLegacyTask ==
  /\ legacy_run.pc = "running"
  /\ \E i \in 1..Len(legacy_run.tasks),
        outcome \in {"saved", "write_failed", "crawl_failed", "below_quota"} :
       LET repo == legacy_run.tasks[i]
       IN /\ output_log' =
               append_crawled_repository(output_log, repo, outcome = "saved")
          /\ _crawled_repos' =
               IF outcome = "saved"
               THEN mark_repository_crawled(_crawled_repos, repo, now)
               ELSE IF outcome = "below_quota" THEN _crawled_repos
               ELSE mark_failed_in_checkpoint(_crawled_repos, repo, now)
          /\ legacy_run' =
               [AfterFilter(legacy_run) EXCEPT !.tasks = RemoveAt(@, i)]
  /\ UNCHANGED <<now, outsideLegacy>>

\* every task is done: crawl_repositories returns
FinishLegacyRun ==
  /\ legacy_run.pc = "running"
  /\ legacy_run.tasks = << >>
  /\ legacy_run' = [AfterFilter(legacy_run) EXCEPT !.pc = "idle"]
  /\ UNCHANGED <<_crawled_repos, output_log, now, outsideLegacy>>

\* the next call is given an output directory that has no output file yet
NewOutputDir ==
  /\ legacy_run.pc = "idle"
  /\ legacy_run.moves < MaxMoves
  /\ output_log # << >>
  /\ output_log' = << >>
  /\ legacy_run' = [AfterFilter(legacy_run) EXCEPT !.moves = @ + 1]
  /\ UNCHANGED <<_crawled_repos, now, outsideLegacy>>

AgeSteps == {1, Days(MAX_CHECKPOINT_AGE_DAYS) - 1, Days(MAX_CHECKPOINT_AGE_DAYS)}

\* the clock moves on between two calls
LegacyTimePasses ==
  /\ legacy_run.pc = "idle"
  /\ legacy_run.ticks < MaxTicks
  /\ \E d \in AgeSteps : now' = now + d
  /\ legacy_run' = [AfterFilter(legacy_run) EXCEPT !.ticks = @ + 1]
  /\ UNCHANGED <<_crawled_repos, output_log, outsideLegacy>>

NextLegacy ==
  \/ StartLegacyRun
  \/ CompleteLegacyTask
  \/ FinishLegacyRun
  \/ NewOutputDir
  \/ LegacyTimePasses

SpecLegacy == InitLegacy /\ [][NextLegacy]_vars

(***************************************************************************)
(* Claims on SpecLegacy.                                                   *)
(***************************************************************************)
\* at the call, the repository had a checkpoint entry of a successful
\* crawl no older than the maximum age
RecentSuccess(repo_url) ==
  /\ repo_url \in DOMAIN legacy_run.entries
  /\ legacy_run.entries[repo_url].crawl_success
  /\ legacy_run.at - legacy_run.entries[repo_url].crawl_timestamp
       <= Days(MAX_CHECKPOINT_AGE_DAYS)

\* the repository is kept by the call unless an output file has a record
\* of it or the checkpoint data a recent success
KeptByLastCall(repo_url) ==
  /\ repo_url \notin legacy_run.output_crawled
  /\ ~RecentSuccess(repo_url)

\* C19: filter_uncrawled_repositories leaves out a repository that is in no
\* output file only when its checkpoint entry records a successful crawl no
\* older than the maximum age: a repository in no output file whose entry is
\* absent, failed or older is returned, and what is returned is the input
\* without the repositories of the output files and of such entries.
C19_CheckpointExcludesOnlyRecentSuccess ==
  legacy_run.repositories # << >> =>
    /\ \A i \in 1..Len(legacy_run.repositories) :
         LET repo == legacy_run.repositories[i]
         IN (repo \notin legacy_run.output_crawled
               /\ repo \notin Range(legacy_run.uncrawled))
              => RecentSuccess(repo)
    /\ legacy_run.uncrawled = SelectSeq(legacy_run.repositories, KeptByLastCall)

\* a call found no output file, left out a repository whose entry of a
\* success was exactly the maximum age old, and returned one whose entry was
\* of a failure
C19_ExcludedByCheckpointOnly ==
  /\ legacy_run.calls = 2
  /\ legacy_run.output_crawled = {}
  /\ \E a, b \in Range(legacy_run.repositories) :
       /\ a \notin Range(legacy_run.uncrawled)
       /\ legacy_run.at - legacy_run.entries[a].crawl_timestamp
            = Days(MAX_CHECKPOINT_AGE_DAYS)
       /\ b \in Range(legacy_run.uncrawled)
       /\ b \in DOMAIN legacy_run.entries
       /\ ~legacy_run.entries[b].crawl_success


(***************************************************************************)
(* SpecDurable: one repository from the scraping of its PRs to the success *)
(* count: the items go through the write queue, the pass ends with a       *)
(* forced flush and load_cached_prs, and crawl_repositories (thread pool)  *)
(* or crawl_repository_batch_worker (process pool) decides on the record.  *)
(* Any append to a cache file or to the output file may fail.              *)
(***************************************************************************)
MaxDurablePrs == 3

InitDurable ==
  /\ StateIdle
  /\ write_queue = << >>
  /\ pr_cache = NoFiles
  /\ batch_size \in {SmallBatchSize, CACHE_FLUSH_BATCH_SIZE}
  /\ enqueued = << >>
  /\ flush_failures = 0
  /\ lastCacheOp = NoCacheOp
  /\ CrawlIdle
  /\ QuotaIdle
  /\ BreakerIdle
  /\ SingleIdle
  /\ LegacyIdle
  /\ FaultIdle

outsideDurable == <<stateVars, apiVars, batch_size, cacheLogVars, engineVars,
                    crawl_run, quotaVars, breakerVars, singleVars, legacyVars,
                    racers, save_run, proc>>

\* the list load_cached_prs returns, as PullRequestInfo objects
LoadedPrs(files) ==
  LET numbers == load_cached_prs(files, REPO)
  IN  [i \in 1..Len(numbers) |-> PullRequestInfo(numbers[i])]

\* _crawl_single_repository is called for the repository
BeginCrawl ==
  /\ durable.pc = "idle"
  /\ \E closed_pull_requests \in RetryAvailableCounts,
        mode \in {"threads", "processes"} :
       durable' = [pc |-> "scraping", mode |-> mode,
                   closed_pull_requests |-> closed_pull_requests,
                   scraped |-> 0, flush_failed |-> FALSE,
                   pull_requests |-> << >>, appended |-> FALSE,
                   looped |-> FALSE,
                   write_success |-> FALSE, successful_count |-> 0]
  /\ UNCHANGED <<write_queue, pr_cache, output_log, outsideDurable>>

\* a PR is scraped and given to cache_pr_immediately
ScrapeOne ==
  /\ durable.pc = "scraping"
  /\ durable.scraped < MaxDurablePrs
  /\ LET item == [repo_url |-> REPO, number |-> durable.scraped + 1]
         q1   == Append(write_queue, item)
     IN  \E fail_at \in (IF Len(q1) >= batch_size THEN FlushOutcomes(q1)
                         ELSE {0}) :
           LET r == cache_pr_immediately(write_queue, pr_cache, batch_size,
                                         item, fail_at)
           IN  /\ write_queue' = r.queue
               /\ pr_cache' = r.files
  /\ durable' = [durable EXCEPT !.scraped = @ + 1]
  /\ UNCHANGED <<output_log, outsideDurable>>

\* the end of scrape_all_prs_aggressively: the forced flush, whose exception
\* _flush_queue swallows, then load_cached_prs; _crawl_single_repository
\* returns success with the list
EndOfPass ==
  /\ durable.pc = "scraping"
  /\ \E fail_at \in FlushOutcomes(write_queue) :
       LET r == _flush_queue(write_queue, pr_cache, fail_at)
       IN  /\ write_queue' = r.queue
           /\ pr_cache' = r.files
           /\ durable' = [durable EXCEPT
                            !.pc = "crawled",
                            !.flush_failed = fail_at # 0,
                            !.pull_requests = LoadedPrs(r.files)]
  /\ UNCHANGED <<output_log, outsideDurable>>

\* crawl_repositories on the result: the record is appended when the quota
\* is met; if not, _continue_scraping_until_requirement_met runs further
\* passes, each with its own flush, and returns its best effort, or None on
\* an exception
DecideInThread ==
  /\ durable.pc = "crawled"
  /\ durable.mode = "threads"
  /\ IF _meets_minimum_pr_requirement(MIN_PRS_REQUIRED,
          RepositoryOf(durable.closed_pull_requests, durable.pull_requests))
     THEN \E write_success \in BOOLEAN :
            /\ output_log' =
                 append_crawled_repository(output_log, REPO, write_success)
            /\ durable' = [durable EXCEPT
                             !.pc = "done", !.appended = TRUE,
                             !.write_success = write_success,
                             !.successful_count =
                                IF write_success THEN @ + 1 ELSE @]
            /\ UNCHANGED <<write_queue, pr_cache>>
     ELSE \E fail_at \in FlushOutcomes(write_queue),
             additional, write_success \in BOOLEAN :
            LET r == _flush_queue(write_queue, pr_cache, fail_at)
            IN  /\ write_queue' = r.queue
                /\ pr_cache' = r.files
                /\ output_log' =
                     IF additional
                     THEN append_crawled_repository(output_log, REPO,
                                                    write_success)
                     ELSE output_log
                /\ durable' = [durable EXCEPT
                                 !.pc = "done",
                                 !.looped = TRUE,
                                 !.flush_failed =
                                    IF write_queue = << >> THEN @
                                    ELSE fail_at # 0,
                                 !.pull_requests = LoadedPrs(r.files),
                                 !.appended = additional,
                                 !.write_success = additional /\ write_success,
                                 !.successful_count =
                                    IF additional /\ write_success
                                    THEN @ + 1 ELSE @]
  /\ UNCHANGED outsideDurable

\* crawl_repository_batch_worker on the result: the record is appended, and
\* the main process counts the tuple the worker returns
DecideInWorker ==
  /\ durable.pc = "crawled"
  /\ durable.mode = "processes"
  /\ \E write_success \in BOOLEAN :
       /\ output_log' =
            append_crawled_repository(output_log, REPO, write_success)
       /\ durable' = [durable EXCEPT
                        !.pc = "done", !.appended = TRUE,
                        !.write_success = write_success,
                        !.successful_count =
                           IF write_success THEN @ + 1 ELSE @]
  /\ UNCHANGED <<write_queue, pr_cache, outsideDurable>>

NextDurable ==
  \/ BeginCrawl
  \/ ScrapeOne
  \/ EndOfPass
  \/ DecideInThread
  \/ DecideInWorker

SpecDurable == InitDurable /\ [][NextDurable]_vars

(***************************************************************************)
(* Claims on SpecDurable.                                                  *)
(***************************************************************************)
\* the repository has no record in the output file and is not in the count
NotRecordedAsCrawled ==
  /\ durable.successful_count = 0
  /\ REPO \notin Range(output_log)

\* C22: once crawl_repositories is done with a repository, if the append of
\* its record failed, or the last flush of its scraped PRs to the cache file
\* failed, the repository is not in the success count and has no record in
\* the output file, so that the next run submits it again.
C22_NotSuccessfulWithoutDurability ==
  (/\ durable.pc = "done"
   /\ \/ durable.appended /\ ~durable.write_success
      \/ durable.flush_failed)
    => NotRecordedAsCrawled

\* C33: the record of a repository is appended, by the thread pool's loop
\* and by a worker process alike, only if the repository meets the quota or
\* went through the retry loop.
C33_SameAcceptanceInWorker ==
  (durable.pc = "done" /\ durable.appended /\ durable.write_success) =>
    \/ durable.looped
    \/ _meets_minimum_pr_requirement(MIN_PRS_REQUIRED,
          RepositoryOf(durable.closed_pull_requests, durable.pull_requests))


(***************************************************************************)
(* SpecSave: the state file of one repository under save_crawl_state /     *)
(* save_state (the two are the same code), with a crash of the process at  *)
(* any point of a save and load_crawl_state / load_state in the process    *)
(* that follows.  The file is the JSON text written so far, token by       *)
(* token.                                                                  *)
(***************************************************************************)
MaxSaves == 2

MaxSavedUrls == 2

\* the fields of the state in the order asdict gives them
FieldOrder ==
  <<"discovered_pr_urls", "scraped_pr_numbers", "failed_pr_urls",
    "last_open_page", "last_closed_page", "open_pages_complete",
    "closed_pages_complete", "discovery_complete", "scraping_complete",
    "open_prs_found", "closed_prs_found">>

\* json.dump(state.to_dict(), f): the braces and one member for each field
Document(st) ==
  <<[key |-> "{", value |-> 0]>>
    \o [i \in 1..Len(FieldOrder) |->
          [key |-> FieldOrder[i], value |-> st[FieldOrder[i]]]]
    \o <<[key |-> "}", value |-> 0]>>

\* json.load: the text is a whole object, or the load raises
IsWholeObject(text) ==
  /\ Len(text) >= 2
  /\ text[1].key = "{"
  /\ text[Len(text)].key = "}"

\* RepositoryCrawlState.from_dict on the object of the text:
\* the state its members give
StateOfText(text) ==
  [f \in Range(FieldOrder) |->
     text[CHOOSE i \in 1..Len(text) : text[i].key = f].value]

\* the state file does not exist
AbsentFile == [exists |-> FALSE, text |-> << >>]

\* load_crawl_state / load_state: None when the file does not exist or the
\* load raises
load_crawl_state(file) ==
  IF ~file.exists THEN NoCheckpoint
  ELSE IF IsWholeObject(file.text) THEN StateOfText(file.text)
  ELSE NoCheckpoint

\* the states a pass may have to save
SaveStates ==
  {[create_initial_state EXCEPT
      !.discovered_pr_urls = [i \in 1..k |-> PullUrl(i)],
      !.last_closed_page = k] : k \in 0..MaxSavedUrls}

IdleSave == [pc |-> "idle", file |-> AbsentFile, saves |-> 0,
             previous |-> NoCheckpoint, new |-> NoCheckpoint,
             loaded |-> NoCheckpoint]

InitSave ==
  /\ StateIdle
  /\ CacheIdle
  /\ CrawlIdle
  /\ QuotaIdle
  /\ BreakerIdle
  /\ SingleIdle
  /\ LegacyIdle
  /\ durable = NoDurable
  /\ racers = NoRacers
  /\ proc = NoProc
  /\ save_run = IdleSave

outsideSave == <<stateVars, apiVars, cacheVars, cacheLogVars, engineVars,
                 crawlVars, quotaVars, breakerVars, singleVars, legacyVars,
                 durable, racers, proc>>

\* open(checkpoint_file, 'w'): the file exists and is empty
BeginSave ==
  /\ save_run.pc = "idle"
  /\ save_run.saves < MaxSaves
  /\ \E st \in SaveStates :
       save_run' = [save_run EXCEPT
                      !.pc = "writing",
                      !.saves = @ + 1,
                      !.previous = load_crawl_state(save_run.file),
                      !.new = st,
                      !.file = [exists |-> TRUE, text |-> << >>]]
  /\ UNCHANGED outsideSave

\* the next part of the text reaches the file
WriteChunk ==
  /\ save_run.pc = "writing"
  /\ Len(save_run.file.text) < Len(Document(save_run.new))
  /\ save_run' = [save_run EXCEPT
                    !.file.text =
                       Append(@, Document(save_run.new)[Len(@) + 1])]
  /\ UNCHANGED outsideSave

\* the with block is left: the save is done
EndSave ==
  /\ save_run.pc = "writing"
  /\ save_run.file.text = Document(save_run.new)
  /\ save_run' = [save_run EXCEPT !.pc = "idle"]
  /\ UNCHANGED outsideSave

\* the process dies during the save
CrashInSave ==
  /\ save_run.pc = "writing"
  /\ save_run' = [save_run EXCEPT !.pc = "crashed"]
  /\ UNCHANGED outsideSave

\* the next process loads the state
LoadAfterCrash ==
  /\ save_run.pc = "crashed"
  /\ save_run' = [save_run EXCEPT
                    !.pc = "loaded",
                    !.loaded = load_crawl_state(save_run.file)]
  /\ UNCHANGED outsideSave

\* the next process goes on and will save again
GoOn ==
  /\ save_run.pc = "loaded"
  /\ save_run' = [save_run EXCEPT !.pc = "idle"]
  /\ UNCHANGED outsideSave

NextSave ==
  \/ BeginSave
  \/ WriteChunk
  \/ EndSave
  \/ CrashInSave
  \/ LoadAfterCrash
  \/ GoOn

SpecSave == InitSave /\ [][NextSave]_vars

(***************************************************************************)
(* Claims on SpecSave.                                                     *)
(***************************************************************************)
\* C25: the load that follows a crash during a save returns the snapshot the
\* file held when the save began or the snapshot being saved, and it does
\* not return None when the file held a snapshot.
C25_LoadReturnsOldOrNew ==
  save_run.pc = "loaded" =>
    /\ save_run.loaded \in {save_run.previous, save_run.new}
    /\ save_run.previous # NoCheckpoint => save_run.loaded # NoCheckpoint


(***************************************************************************)
(* SpecInterrupt: the crawler process of cli.main with its cache manager,  *)
(* under a KeyboardInterrupt.  The interrupt is raised in the main thread; *)
(* no handler between the point it is raised and cli.main catches it, and  *)
(* leaving the block of the thread pool waits for the tasks that run.      *)
(***************************************************************************)
MaxRunning == 2

MaxProcItems == 3

IdleProc == [pc |-> "idle", running |-> 0, items |-> 0, interrupted |-> FALSE,
             queued_at_interrupt |-> << >>, flushed_after |-> FALSE]

InitInterrupt ==
  /\ StateIdle
  /\ write_queue = << >>
  /\ pr_cache = NoFiles
  /\ batch_size \in {SmallBatchSize, CACHE_FLUSH_BATCH_SIZE}
  /\ enqueued = << >>
  /\ flush_failures = 0
  /\ lastCacheOp = NoCacheOp
  /\ CrawlIdle
  /\ QuotaIdle
  /\ BreakerIdle
  /\ SingleIdle
  /\ LegacyIdle
  /\ durable = NoDurable
  /\ racers = NoRacers
  /\ save_run = NoSave
  /\ proc = IdleProc

outsideInterrupt == <<stateVars, apiVars, batch_size, cacheLogVars,
                      engineVars, crawlVars, quotaVars, breakerVars,
                      singleVars, legacyVars, durable, racers, save_run>>

\* a flush while the process is on its way out counts as attempted
NotedFlush(p) ==
  [p EXCEPT !.flushed_after = @ \/ p.pc = "interrupted"]

\* cli.main calls process_repositories: the tasks are in the thread pool
StartProcess ==
  /\ proc.pc = "idle"
  /\ \E running \in 0..MaxRunning :
       proc' = [IdleProc EXCEPT !.pc = "crawling", !.running = running]
  /\ UNCHANGED <<write_queue, pr_cache, outsideInterrupt>>

\* a scraped PR is given to cache_pr_immediately, by a task of the pool, or
\* by the main thread in a pass of _continue_scraping_until_requirement_met
EnqueueScraped ==
  /\ \/ proc.pc = "crawling"
     \/ proc.pc = "interrupted" /\ proc.running > 0
  /\ proc.items < MaxProcItems
  /\ \E item \in CacheItems :
       LET r == cache_pr_immediately(write_queue, pr_cache, batch_size, item, 0)
       IN  /\ write_queue' = r.queue
           /\ pr_cache' = r.files
           /\ proc' = [(IF Len(write_queue) + 1 >= batch_size
                        THEN NotedFlush(proc) ELSE proc)
                         EXCEPT !.items = @ + 1]
  /\ UNCHANGED outsideInterrupt

\* a task of the pool comes to the forced flush at the end of its pass
TaskEnds ==
  /\ proc.pc \in {"crawling", "interrupted"}
  /\ proc.running > 0
  /\ LET r == _flush_queue(write_queue, pr_cache, 0)
     IN  write_queue' = r.queue /\ pr_cache' = r.files
  /\ proc' = [NotedFlush(proc) EXCEPT !.running = @ - 1]
  /\ UNCHANGED outsideInterrupt

\* the daemon writer thread wakes up
TimerFlush ==
  /\ proc.pc \in {"crawling", "interrupted"}
  /\ write_queue # << >>
  /\ LET r == _flush_queue(write_queue, pr_cache, 0)
     IN  write_queue' = r.queue /\ pr_cache' = r.files
  /\ proc' = NotedFlush(proc)
  /\ UNCHANGED outsideInterrupt

\* every task is done: crawl_repositories flushes and returns, cli.main ends
NormalEnd ==
  /\ proc.pc = "crawling"
  /\ proc.running = 0
  /\ LET r == _flush_queue(write_queue, pr_cache, 0)
     IN  write_queue' = r.queue /\ pr_cache' = r.files
  /\ proc' = [proc EXCEPT !.pc = "exited"]
  /\ UNCHANGED outsideInterrupt

\* KeyboardInterrupt is raised in the main thread
KeyboardInterrupt ==
  /\ proc.pc = "crawling"
  /\ proc' = [proc EXCEPT !.pc = "interrupted", !.interrupted = TRUE,
                          !.queued_at_interrupt = write_queue]
  /\ UNCHANGED <<write_queue, pr_cache, outsideInterrupt>>

\* the pool has no running task left: the exception reaches cli.main, which
\* logs the summary and calls sys.exit(1); the daemon thread ends with the
\* process and the queue with its memory
ExitOnInterrupt ==
  /\ proc.pc = "interrupted"
  /\ proc.running = 0
  /\ proc' = [proc EXCEPT !.pc = "exited"]
  /\ UNCHANGED <<write_queue, pr_cache, outsideInterrupt>>

NextInterrupt ==
  \/ StartProcess
  \/ EnqueueScraped
  \/ TaskEnds
  \/ TimerFlush
  \/ NormalEnd
  \/ KeyboardInterrupt
  \/ ExitOnInterrupt

SpecInterrupt == InitInterrupt /\ [][NextInterrupt]_vars

(***************************************************************************)
(* Claims on SpecInterrupt.                                                *)
(***************************************************************************)
\* C26: when the process has exited after a KeyboardInterrupt that found
\* items in the write queue, a flush of the queue was attempted between the
\* interrupt and the exit.
C26_FinalFlushOnInterrupt ==
  (/\ proc.pc = "exited"
   /\ proc.interrupted
   /\ proc.queued_at_interrupt # << >>)
    => proc.flushed_after


(***************************************************************************)
(* SpecRace: _discover_urls_aggressively with CRAWL_OPEN_PRS and           *)
(* CRAWL_CLOSED_PRS both set: _discover_pr_urls_parallel runs for "open"   *)
(* and for "closed" in two threads of one pool, on the same state object.  *)
(* A thread can be switched between any two of its reads and writes of     *)
(* the state.                                                              *)
(***************************************************************************)
MaxRacePages == 1

\* the URLs of one listing page of a thread
MaxRaceUrls == 2

\* the PR URLs a listing page can give
RacePages == {urls \in SeqsUpTo(PullUrls, MaxRaceUrls) : NoDup(urls)}

IdleThread == [pc |-> "idle", page |-> 0, page_urls |-> << >>, i |-> 0,
               is_complete |-> FALSE, existing_urls |-> {}, new_count |-> 0]

InitRace ==
  /\ unified \in BOOLEAN
  /\ state = create_initial_state
  /\ checkpoint = NoCheckpoint
  /\ calls = 0
  /\ lastCall = NoCall
  /\ EngineIdle
  /\ CacheIdle
  /\ CrawlIdle
  /\ QuotaIdle
  /\ BreakerIdle
  /\ SingleIdle
  /\ LegacyIdle
  /\ durable = NoDurable
  /\ save_run = NoSave
  /\ proc = NoProc
  /\ racers = [threads |-> [t \in PrTypes |-> IdleThread], given |-> {}]

outsideRace == <<unified, apiVars, cacheVars, cacheLogVars, engineVars,
                 crawlVars, quotaVars, breakerVars, singleVars, legacyVars,
                 durable, save_run, proc>>

\* the page cursor and the completion flag of a category
WithCursor(st, t, page, is_complete, uni) ==
  IF t = "open"
  THEN [st EXCEPT !.last_open_page = page,
                  !.open_pages_complete =
                     IF uni THEN @ \/ is_complete ELSE is_complete]
  ELSE [st EXCEPT !.last_closed_page = page,
                  !.closed_pages_complete =
                     IF uni THEN @ \/ is_complete ELSE is_complete]

\* a thread enters _update_discovery_progress with the URLs of its next
\* page: the unified branch begins with the cursor, update_discovery_progress
\* with existing_urls = set(state.discovered_pr_urls)
EnterUpdate ==
  \E t \in PrTypes, page_urls \in RacePages, is_complete \in BOOLEAN :
    LET th == racers.threads[t] IN
    /\ th.pc = "idle"
    /\ th.page < MaxRacePages
    /\ racers' = [racers EXCEPT
         !.threads[t] = [pc |-> "urls", page |-> th.page + 1,
                         page_urls |-> page_urls, i |-> 1,
                         is_complete |-> is_complete,
                         existing_urls |-> Range(state.discovered_pr_urls),
                         new_count |-> 0],
         !.given = @ \cup Range(page_urls)]
    /\ state' = IF unified
                THEN WithCursor(state, t, th.page + 1, is_complete, TRUE)
                ELSE state
    /\ UNCHANGED <<checkpoint, outsideRace>>

\* `if url not in ...`: the list of the state in the unified branch, the
\* set taken at the entry in update_discovery_progress
TestUrl ==
  \E t \in PrTypes :
    LET th == racers.threads[t] IN
    /\ th.pc = "urls"
    /\ th.i <= Len(th.page_urls)
    /\ LET url == th.page_urls[th.i]
           present == IF unified
                      THEN url \in Range(state.discovered_pr_urls)
                      ELSE url \in th.existing_urls
       IN  racers' = [racers EXCEPT
             !.threads[t] = IF present THEN [th EXCEPT !.i = @ + 1]
                            ELSE [th EXCEPT !.pc = "append"]]
    /\ UNCHANGED <<state, checkpoint, outsideRace>>

\* state.discovered_pr_urls.append(url)
AppendUrl ==
  \E t \in PrTypes :
    LET th == racers.threads[t]
        url == th.page_urls[th.i] IN
    /\ th.pc = "append"
    /\ state' = [state EXCEPT !.discovered_pr_urls = Append(@, url)]
    /\ racers' = [racers EXCEPT
         !.threads[t] = [th EXCEPT !.pc = "urls", !.i = @ + 1,
                                   !.existing_urls = @ \cup {url},
                                   !.new_count = @ + 1]]
    /\ UNCHANGED <<checkpoint, outsideRace>>

\* the loop over the URLs is done: the unified branch returns;
\* update_discovery_progress sets the cursor and the count of its category
\* and discovery_complete, and saves the state
LeaveUpdate ==
  \E t \in PrTypes :
    LET th == racers.threads[t]
        s1 == WithCursor(state, t, th.page, th.is_complete, FALSE)
        s2 == IF t = "open"
              THEN [s1 EXCEPT !.open_prs_found = @ + th.new_count]
              ELSE [s1 EXCEPT !.closed_prs_found = @ + th.new_count]
        s3 == [s2 EXCEPT !.discovery_complete =
                            s2.open_pages_complete /\ s2.closed_pages_complete]
    IN
    /\ th.pc = "urls"
    /\ th.i > Len(th.page_urls)
    /\ racers' = [racers EXCEPT !.threads[t].pc = "idle"]
    /\ state' = IF unified THEN state ELSE s3
    /\ checkpoint' = IF unified THEN checkpoint ELSE s3
    /\ UNCHANGED outsideRace

NextRace ==
  \/ EnterUpdate
  \/ TestUrl
  \/ AppendUrl
  \/ LeaveUpdate

SpecRace == InitRace /\ [][NextRace]_vars

(***************************************************************************)
(* Claims on SpecRace.                                                     *)
(***************************************************************************)
\* the thread of the category is inside the update of the state
InUpdate(t) == racers.threads[t].pc \in {"urls", "append"}

\* C23: the two discovery threads are never inside an update of the state
\* at the same time; discovered_pr_urls never has a URL twice; and when no
\* update is in progress, every URL given to an update is in
\* discovered_pr_urls and each page cursor is the last page its category
\* recorded.
C23_StateUpdatesSerialized ==
  /\ ~(InUpdate("open") /\ InUpdate("closed"))
  /\ NoDup(state.discovered_pr_urls)
  /\ (~InUpdate("open") /\ ~InUpdate("closed")) =>
       /\ Range(state.discovered_pr_urls) = racers.given
       /\ state.last_open_page = racers.threads["open"].page
       /\ state.last_closed_page = racers.threads["closed"].page

(***************************************************************************)
(* SpecExpiry: the failed issues of FailedIssueCache over the life of      *)
(* several processes: mark_failed in a process, _save_cache when the       *)
(* object goes away, _load_cache when the next process builds its cache,   *)
(* and the clock going forward by up to max_cache_age in between.          *)
(***************************************************************************)
\* _load_cache at time t: the issues whose timestamp is younger than
\* max_cache_age, and the two breaker dicts as stored; nothing when there
\* is no file
_load_cache(c, t) ==
  IF DOMAIN c.file = {}
  THEN c
  ELSE [c EXCEPT
          !.failed_issues =
            [repo_url \in DOMAIN c.file.failed_issues |->
               {issue \in DOMAIN c.file.failed_issues[repo_url] :
                  t - c.file.failed_issues[repo_url][issue] < max_cache_age}],
          !.failure_counts = c.file.failure_counts,
          !.blocked_until = c.file.blocked_until]

\* the object a new process starts with, before _load_cache
NewCache == [failed_issues |-> EmptyDict,
             failure_counts |-> EmptyDict,
             blocked_until |-> EmptyDict,
             file |-> failed_issues_file]

\* the process of the cache has ended and no other has started
BetweenProcesses == breaker_log.last.op = "__del__"

MarkFailedInProcess ==
  /\ ~BetweenProcesses
  /\ MarkFailed

\* __del__: the cache is saved when the object goes away
SaveOnExit ==
  /\ ~BetweenProcesses
  /\ SetCache(_save_cache(ThisCache, now))
  /\ breaker_log' = [breaker_log EXCEPT !.last = [op |-> "__del__"]]
  /\ UNCHANGED <<now, outsideBreaker>>

\* __init__ of the next process
LoadCache ==
  /\ BetweenProcesses
  /\ SetCache(_load_cache(NewCache, now))
  /\ breaker_log' = [breaker_log EXCEPT !.last = [op |-> "_load_cache",
                                                  at |-> now]]
  /\ UNCHANGED <<now, outsideBreaker>>

Age ==
  /\ breaker_log.ticks < MaxTicks
  /\ \E step \in RetentionSteps : now' = now + step
  /\ breaker_log' = [breaker_log EXCEPT !.ticks = @ + 1]
  /\ UNCHANGED <<failed_issues, failure_counts, blocked_until,
                 failed_issues_file, outsideBreaker>>

NextExpiry ==
  \/ MarkFailedInProcess
  \/ SaveOnExit
  \/ LoadCache
  \/ Age

SpecExpiry == InitBreaker /\ [][NextExpiry]_vars

\* C32: a failed issue expires max_cache_age after the failure was
\* recorded, however often the cache is saved and loaded: a cache loaded
\* when the last recorded failure is max_cache_age old or older reports no
\* issue as failed.
C32_RecordExpiresAfterRetention ==
  (/\ breaker_log.last.op = "_load_cache"
   /\ breaker_log.marks > 0
   /\ breaker_log.last.at - breaker_log.last_failed_at >= max_cache_age) =>
    \A repo_url \in BreakerRepos :
      \A issue \in 1..MaxIssue :
        issue \notin Get(failed_issues, repo_url, {})

(***************************************************************************)
(* SpecGuarded: the scraping engine of SpecEngine in a crawler whose       *)
(* FailedIssueCache was loaded, at construction, from the cache file an    *)
(* earlier process left: no file, or one saved with the repository         *)
(* blocked.                                                                *)
(***************************************************************************)
\* the file _save_cache writes at time 0 after failure_threshold failures
\* over MaxIssue issues of the repository
BlockedFile ==
  _save_cache([failed_issues |-> [r \in {REPO} |-> 1..MaxIssue],
               failure_counts |-> [r \in {REPO} |-> failure_threshold],
               blocked_until |-> [r \in {REPO} |-> block_timeout],
               file |-> EmptyDict], 0).file

InitGuarded ==
  /\ StateUntouched
  /\ unified \in BOOLEAN
  /\ state = create_initial_state
  /\ checkpoint = NoCheckpoint
  /\ write_queue = << >>
  /\ pr_cache = NoFiles
  /\ batch_size \in (IF unified THEN {SmallBatchSize, CACHE_FLUSH_BATCH_SIZE}
                      ELSE {LEGACY_BATCH_SIZE})
  /\ pc = "start"
  /\ env \in Envs
  /\ disc = NoDiscovery
  /\ work = NoWork
  /\ trial = NoTrial
  /\ CrawlIdle /\ QuotaIdle /\ SingleIdle /\ LegacyIdle /\ FaultIdle
  /\ failed_issues_file \in {EmptyDict, BlockedFile}
  /\ now = 1
  /\ breaker_log = NoBreakerLog
  /\ failed_issues = _load_cache(NewCache, now).failed_issues
  /\ failure_counts = _load_cache(NewCache, now).failure_counts
  /\ blocked_until = _load_cache(NewCache, now).blocked_until

SpecGuarded == InitGuarded /\ [][NextEngine]_vars

\* C31: the scraping engine dispatches no item fetch for a repository
\* while the circuit breaker of the failure cache blocks the repository.
C31_NoDispatchWhileBlocked ==
  pc = "scraping" => should_attempt_repo(ThisCache, REPO, now).result

(***************************************************************************)
(* SpecShared: the worker processes of MultiprocessCrawler, each with the  *)
(* FailedIssueCache of its own crawler, all on the one cache file.  A      *)
(* worker loads the file when its crawler is built, marks repositories of  *)
(* its batch as failed, and saves once more when its cache goes away.      *)
(***************************************************************************)
\* worker processes running at once
MaxProcesses == 2
\* repositories in the batch of a worker
MaxBatch == 2

Workers == 1..MaxProcesses

\* the repositories of the batch of worker w
BatchOf(w) == {[batch |-> w, index |-> k] : k \in 1..MaxBatch}

InitShared ==
  /\ StateIdle
  /\ CacheIdle
  /\ CrawlIdle
  /\ QuotaIdle
  /\ BreakerIdle
  /\ LegacyIdle
  /\ FaultIdle
  /\ task = [pc |-> [w \in Workers |-> "new"], recorded |-> {}]
  /\ failed_repositories = [w \in Workers |-> EmptyDict]
  /\ failed_repositories_file = EmptyDict

\* crawl_repository_batch builds its crawler: FailedIssueCache() loads the
\* file
StartWorker(w) ==
  /\ task.pc[w] = "new"
  /\ failed_repositories' =
       [failed_repositories EXCEPT
          ![w] = LoadFailedRepositories(failed_repositories_file, now)]
  /\ task' = [task EXCEPT !.pc[w] = "running"]
  /\ UNCHANGED <<failed_repositories_file, now, output_log, outsideSingle>>

\* _crawl_single_repository of a repository of the batch fails:
\* mark_repository_failed sets the record and saves the cache of this process
MarkRepositoryFailed(w) ==
  /\ task.pc[w] = "running"
  /\ \E repo_url \in BatchOf(w) \ DOMAIN failed_repositories[w] :
       LET marked == mark_repository_failed(failed_repositories[w], repo_url,
                                            "Stats scraping failed", now)
       IN  /\ failed_repositories' =
                [failed_repositories EXCEPT ![w] = marked.failed_repositories]
           /\ failed_repositories_file' = marked.file
           /\ task' = [task EXCEPT !.recorded = @ \cup {repo_url}]
  /\ UNCHANGED <<now, output_log, outsideSingle>>

\* the batch is done and the crawler goes away: __del__ saves the cache
WorkerExit(w) ==
  /\ task.pc[w] = "running"
  /\ failed_repositories_file' = failed_repositories[w]
  /\ task' = [task EXCEPT !.pc[w] = "done"]
  /\ UNCHANGED <<failed_repositories, now, output_log, outsideSingle>>

NextShared ==
  \E w \in Workers :
    \/ StartWorker(w)
    \/ MarkRepositoryFailed(w)
    \/ WorkerExit(w)

SpecShared == InitShared /\ [][NextShared]_vars

\* C40: a repository failure recorded by one worker process stays in the
\* cache file whatever the other processes save.
C40_NoSaveErasesAnotherRecord ==
  \A repo_url \in task.recorded :
    repo_url \in DOMAIN failed_repositories_file

(***************************************************************************)
(* SpecCommits: pr_commit_mapping of the crawl state of one repository     *)
(* under save_pr_commits and get_pr_commits, each of which loads the state *)
(* file, and the first of which saves it again.  The mapping is a dict     *)
(* with keys of either type, the file holds it as json.dump writes it and  *)
(* json.load reads it.                                                     *)
(***************************************************************************)
\* calls of save_pr_commits per behaviour
MaxCommitSaves == 3
\* PR numbers are 1..MaxCommitPrs
MaxCommitPrs == 2
\* commit ids in the list of a PR: 1..MaxCommitIds
MaxCommitIds == 2

CommitIds == {"c1", "c2"}

\* a non-empty list of commit ids, as _scrape_pr_commits_parallel saves it
CommitLists == SeqsUpTo(CommitIds, MaxCommitIds) \ {<< >>}

\* the keys of a dict: the int n, and the str of its digits
IntKey(n) == [type |-> "int", digits |-> n]

StrKey(n) == [type |-> "str", digits |-> n]

\* d[key] = value on a dict kept as the list of its items
DictSet(d, key, value) ==
  IF \E i \in 1..Len(d) : d[i].key = key
  THEN [i \in 1..Len(d) |-> IF d[i].key = key
                            THEN [key |-> key, value |-> value] ELSE d[i]]
  ELSE Append(d, [key |-> key, value |-> value])

\* d.get(key, default)
DictGet(d, key, default) ==
  IF \E i \in 1..Len(d) : d[i].key = key
  THEN d[CHOOSE i \in 1..Len(d) : d[i].key = key].value
  ELSE default

\* json.dump of the mapping: the members in the order of the dict, every
\* key as a string
JsonDump(d) ==
  [i \in 1..Len(d) |-> [key |-> StrKey(d[i].key.digits), value |-> d[i].value]]

RECURSIVE LoadMembers(_, _)
LoadMembers(text, d) ==
  IF text = << >> THEN d
  ELSE LoadMembers(Tail(text), DictSet(d, Head(text).key, Head(text).value))

\* json.load of the object: the keys are strings, and of two members with
\* the same key the later one counts
JsonLoad(text) == LoadMembers(text, << >>)

\* the file after save_pr_commits; the call returns early without a state
save_pr_commits(file, pr_number, commit_ids) ==
  IF ~file.exists THEN file
  ELSE [exists |-> TRUE,
        text |-> JsonDump(DictSet(JsonLoad(file.text), IntKey(pr_number),
                                  commit_ids))]

get_pr_commits(file, pr_number) ==
  IF ~file.exists THEN << >>
  ELSE DictGet(JsonLoad(file.text), IntKey(pr_number), << >>)

InitCommits ==
  /\ StateIdle
  /\ CacheIdle
  /\ CrawlIdle
  /\ QuotaIdle
  /\ BreakerIdle
  /\ SingleIdle
  /\ LegacyIdle
  /\ durable = NoDurable
  /\ racers = NoRacers
  /\ proc = NoProc
  /\ save_run = [pc |-> "commits",
                 file |-> AbsentFile,
                 saves |-> 0,
                 saved |-> [n \in 1..MaxCommitPrs |-> << >>],
                 last |-> [op |-> "none"]]

\* the scraper saves the crawl state of the repository for the first time:
\* the mapping is empty
SaveInitialState ==
  /\ ~save_run.file.exists
  /\ save_run' = [save_run EXCEPT
                    !.file = [exists |-> TRUE, text |-> JsonDump(<< >>)],
                    !.last = [op |-> "save_crawl_state"]]
  /\ UNCHANGED outsideSave

SavePrCommits ==
  /\ save_run.saves < MaxCommitSaves
  /\ \E pr_number \in 1..MaxCommitPrs, commit_ids \in CommitLists :
       save_run' = [save_run EXCEPT
                      !.file = save_pr_commits(@, pr_number, commit_ids),
                      !.saves = @ + 1,
                      !.saved[pr_number] = IF save_run.file.exists
                                           THEN commit_ids ELSE @,
                      !.last = [op |-> "save_pr_commits"]]
  /\ UNCHANGED outsideSave

GetPrCommits ==
  /\ \E pr_number \in 1..MaxCommitPrs :
       save_run' = [save_run EXCEPT
                      !.last = [op |-> "get_pr_commits",
                                pr_number |-> pr_number,
                                result |-> get_pr_commits(save_run.file,
                                                          pr_number)]]
  /\ UNCHANGED outsideSave

NextCommits ==
  \/ SaveInitialState
  \/ SavePrCommits
  \/ GetPrCommits

SpecCommits == InitCommits /\ [][NextCommits]_vars

\* C36: get_pr_commits(repo, n) returns the list the last
\* save_pr_commits(repo, n, ids) on the repository's saved state gave.
C36_CommitsSurviveSaveAndLoad ==
  (/\ save_run.last.op = "get_pr_commits"
   /\ save_run.saved[save_run.last.pr_number] # << >>) =>
    save_run.last.result = save_run.saved[save_run.last.pr_number]

=============================================================================
